---- MODULE Spec2Model ----
(***************************************************************************)
(* Model of the transaction API of roxiler-backend                         *)
(* (src/controllers/transactionController.js).                             *)
(*                                                                         *)
(* Representation                                                          *)
(*   - a JavaScript string is a sequence of one-character strings;         *)
(*   - a JavaScript number is an IEEE-754 double, a record [k, neg, m, e]: *)
(*     k is "nan", "inf" or "fin", neg the sign, and a finite number is    *)
(*     m * 2^e with m an odd natural number (or 0);                        *)
(*   - a Date is a record [valid, day, ms]: the instant of millisecond ms  *)
(*     of day number day since 1970-01-01T00:00Z; valid = FALSE is the     *)
(*     Invalid Date;                                                       *)
(*   - the collection behind the Transaction model is the sequence store,  *)
(*     in the store's natural (insertion) order.                           *)
(*                                                                         *)
(* Outside src/                                                            *)
(*   - the model ../models/Transaction and the store behind it: a          *)
(*     document has the fields of the records below, dateOfSale is a       *)
(*     Date; $regex patterns are read as the RegExp of the language reads  *)
(*     them; skip and limit take whole numbers, limit 0 is no limit and a  *)
(*     negative limit counts as its magnitude;                             *)
(*   - the language itself: numbers, strings, Date, RegExp, JSON and the   *)
(*     properties of Object.prototype are modelled after ECMAScript as     *)
(*     the engine of node implements it (the legacy date parser            *)
(*     included); the daylight saving rules of the time zones are the      *)
(*     recurring rules in force in 2021.                                   *)
(***************************************************************************)
EXTENDS Integers, Sequences, FiniteSets, TLC

(***************************************************************************)
(* Natural numbers of any size                                             *)
(*                                                                         *)
(* A double has a 53-bit significand and TLC's integers have 32 bits: the  *)
(* significands are kept as sequences of limbs, least significant first,   *)
(* each limb in 0..Base-1, with no zero limb at the top; <<>> is 0.        *)
(***************************************************************************)
LimbBits == 15
Base == 32768

\* The element of a one-element set.  Only({F(x) : x \in {e}}) is F(e) with e
\* evaluated once, before F: it keeps the evaluation of a recursion from
\* nesting as deep as the recursion is long.
Only(S) == CHOOSE x \in S : TRUE

Min(a, b) == IF a <= b THEN a ELSE b
Max(a, b) == IF a >= b THEN a ELSE b

Pow2(n) ==
    <<1, 2, 4, 8, 16, 32, 64, 128, 256, 512, 1024, 2048, 4096, 8192, 16384,
      32768, 65536, 131072, 262144, 524288, 1048576, 2097152, 4194304,
      8388608, 16777216, 33554432, 67108864, 134217728, 268435456,
      536870912, 1073741824>>[n + 1]

\* the limbs of a without the zero limbs at the top
BigTrim(a) ==
    SubSeq(a, 1, IF \A i \in 1..Len(a) : a[i] = 0 THEN 0
                 ELSE CHOOSE i \in 1..Len(a) :
                          a[i] /= 0 /\ \A j \in (i + 1)..Len(a) : a[j] = 0)

RECURSIVE BigOfInt(_)
BigOfInt(n) == IF n = 0 THEN <<>> ELSE <<n % Base>> \o BigOfInt(n \div Base)

RECURSIVE BigToInt(_, _)
BigToInt(a, i) == IF i > Len(a) THEN 0 ELSE a[i] + Base * BigToInt(a, i + 1)

Limb(a, i) == IF i <= Len(a) THEN a[i] ELSE 0

\* One limb of a school-book operation; c is the carry, borrow or remainder
\* that comes in, out the limb of the result:
\*   "add" a + b, "sub" a - b, "mul" a * k, "div" a \div k
LimbStep(op, a, b, k, i, c) ==
    CASE op = "add" ->
           [out |-> <<(Limb(a, i) + Limb(b, i) + c) % Base>>,
            c |-> (Limb(a, i) + Limb(b, i) + c) \div Base]
      [] op = "sub" ->
           [out |-> <<(Limb(a, i) - Limb(b, i) - c + Base) % Base>>,
            c |-> IF Limb(a, i) - Limb(b, i) - c < 0 THEN 1 ELSE 0]
      [] op = "mul" ->
           [out |-> <<(a[i] * k + c) % Base>>, c |-> (a[i] * k + c) \div Base]
      [] op = "div" ->
           [out |-> <<(c * Base + a[i]) \div k>>, c |-> (c * Base + a[i]) % k]

\* The operation on the limbs lo..hi: the carry runs upwards, the remainder
\* of a division downwards.  The range is halved so that the evaluation
\* nests no deeper than the logarithm of the length.
RECURSIVE LimbScan(_, _, _, _, _, _, _)
LimbJoin(op, first, second) ==
    [out |-> IF op = "div" THEN second.out \o first.out
                           ELSE first.out \o second.out,
     c |-> second.c]

LimbSecond(op, a, b, k, lo, hi, first) ==
    LimbJoin(op, first, LimbScan(op, a, b, k, lo, hi, first.c))

LimbHalves(op, a, b, k, lo, mid, hi, c) ==
    IF op = "div"
    THEN Only({LimbSecond(op, a, b, k, lo, mid, first) :
                   first \in {LimbScan(op, a, b, k, mid + 1, hi, c)}})
    ELSE Only({LimbSecond(op, a, b, k, mid + 1, hi, first) :
                   first \in {LimbScan(op, a, b, k, lo, mid, c)}})

LimbScan(op, a, b, k, lo, hi, c) ==
    IF lo > hi THEN [out |-> <<>>, c |-> c]
    ELSE IF lo = hi THEN LimbStep(op, a, b, k, lo, c)
    ELSE LimbHalves(op, a, b, k, lo, (lo + hi) \div 2, hi, c)

\* the result with the last carry as its top limb
WithCarry(h) == BigTrim(h.out \o <<h.c>>)

BigAdd(a, b) == WithCarry(LimbScan("add", a, b, 0, 1, Max(Len(a), Len(b)), 0))

\* a - b for a >= b
BigSub(a, b) == BigTrim(LimbScan("sub", a, b, 0, 1, Len(a), 0).out)

\* a * k + c for k and c in 0..Base-1
BigMulAdd(a, k, c) == WithCarry(LimbScan("mul", a, <<>>, k, 1, Len(a), c))

\* quotient [out] and remainder [c] of a by k in 1..Base
BigDivSmall(a, k) == LimbScan("div", a, <<>>, k, 1, Len(a), 0)

\* sign of a - b
BigCmp(a, b) ==
    IF Len(a) /= Len(b) THEN (IF Len(a) < Len(b) THEN 0 - 1 ELSE 1)
    ELSE IF a = b THEN 0
    ELSE IF \E i \in 1..Len(a) :
                a[i] < b[i] /\ \A j \in (i + 1)..Len(a) : a[j] = b[j]
    THEN 0 - 1 ELSE 1

\* a * 2^n
BigShl(a, n) ==
    IF a = <<>> THEN <<>>
    ELSE [i \in 1..(n \div LimbBits) |-> 0] \o BigMulAdd(a, Pow2(n % LimbBits), 0)

\* a \div 2^n [q], and whether a bit that was shifted out was set [sticky]
ShrLimbs(a, drop, h) ==
    [q |-> BigTrim(h.out), sticky |-> h.c /= 0 \/ \E i \in 1..drop : a[i] /= 0]

BigShr(a, n) ==
    IF n \div LimbBits >= Len(a) THEN [q |-> <<>>, sticky |-> a /= <<>>]
    ELSE ShrLimbs(a, n \div LimbBits,
                  BigDivSmall(SubSeq(a, (n \div LimbBits) + 1, Len(a)),
                              Pow2(n % LimbBits)))

\* number of bits of a
BitLen(a) ==
    IF a = <<>> THEN 0
    ELSE LimbBits * (Len(a) - 1)
         + CHOOSE n \in 1..LimbBits :
               Pow2(n - 1) <= a[Len(a)] /\ a[Len(a)] < Pow2(n)

\* number of zero bits below the lowest set bit of a /= 0
LowestLimb(a) == CHOOSE i \in 1..Len(a) : a[i] /= 0 /\ \A j \in 1..(i - 1) : a[j] = 0

TrailingZerosAt(a, i) ==
    LimbBits * (i - 1)
    + CHOOSE z \in 0..(LimbBits - 1) :
          a[i] % Pow2(z) = 0 /\ a[i] % Pow2(z + 1) /= 0

TrailingZeros(a) == TrailingZerosAt(a, LowestLimb(a))

IsOdd(a) == a /= <<>> /\ a[1] % 2 = 1

\* a * b, from limb i of b on
RECURSIVE BigMulFrom(_, _, _)
BigMulFrom(a, b, i) ==
    IF i > Len(b) THEN <<>>
    ELSE Only({BigAdd(BigMulAdd(a, b[i], 0), <<0>> \o rest) :
                   rest \in {BigMulFrom(a, b, i + 1)}})

BigMul(a, b) == BigTrim(BigMulFrom(a, b, 1))

\* the largest d in 0..Base-1 with d * b <= r, found bit by bit from bit j
RECURSIVE QuotientDigit(_, _, _, _)
QuotientDigit(r, b, d, j) ==
    IF j < 0 THEN d
    ELSE Only({QuotientDigit(r, b, d2, j - 1) :
                   d2 \in {IF BigCmp(BigMulAdd(b, d + Pow2(j), 0), r) <= 0
                           THEN d + Pow2(j) ELSE d}})

\* long division of a by b /= 0, one limb of a at a time from the top: h is
\* the result on the limbs above limb i, r the remainder with limb i brought
\* down, d the digit of the quotient
DivDigit(h, r, b, d) ==
    [q |-> <<d>> \o h.q, r |-> BigSub(r, BigMulAdd(b, d, 0))]

DivLimb(h, r, b) ==
    Only({DivDigit(h, r, b, d) : d \in {QuotientDigit(r, b, 0, LimbBits - 1)}})

DivBringDown(h, limb, b) ==
    Only({DivLimb(h, r, b) : r \in {BigTrim(<<limb>> \o h.r)}})

RECURSIVE BigDivFrom(_, _, _)
BigDivFrom(a, b, i) ==
    IF i > Len(a) THEN [q |-> <<>>, r |-> <<>>]
    ELSE Only({DivBringDown(h, a[i], b) : h \in {BigDivFrom(a, b, i + 1)}})

\* quotient [q] and remainder [r] of a by b /= 0
DivTrimmed(h) == [q |-> BigTrim(h.q), r |-> h.r]

BigDivMod(a, b) == DivTrimmed(BigDivFrom(a, b, 1))

(***************************************************************************)
(* Numbers: IEEE 754 binary64                                              *)
(*                                                                         *)
(* A number is NaN, an infinity or (-1)^neg * m * 2^e with m a natural     *)
(* number below 2^53; the record is canonical, so equal numbers are equal  *)
(* records except for the two zeros: m is odd, or m = 0 and e = 0.         *)
(***************************************************************************)
Precision == 53
MinExponent == 0 - 1074
MaxBits == 1024

NaN == [k |-> "nan", neg |-> FALSE, m |-> <<>>, e |-> 0]
Infinity(neg) == [k |-> "inf", neg |-> neg, m |-> <<>>, e |-> 0]
Zero(neg) == [k |-> "fin", neg |-> neg, m |-> <<>>, e |-> 0]

CanonShift(neg, m, e, z) ==
    [k |-> "fin", neg |-> neg, m |-> BigShr(m, z).q, e |-> e + z]

\* the number (-1)^neg * m * 2^e when m has at most 53 bits
Finite(neg, m, e) ==
    IF m = <<>> THEN Zero(neg)
    ELSE IF BitLen(m) + e > MaxBits THEN Infinity(neg)
    ELSE CanonShift(neg, m, e, TrailingZeros(m))

\* rounding to nearest, ties to even: h is the value shifted down to one
\* guard bit below the last bit kept, m the bits kept
RoundTies(neg, h, m, e, sticky) ==
    Finite(neg,
           IF IsOdd(h.q) /\ (h.sticky \/ sticky \/ IsOdd(m))
           THEN BigMulAdd(m, 1, 1) ELSE m,
           e)

RoundGuard(neg, h, e, sticky) == RoundTies(neg, h, BigShr(h.q, 1).q, e, sticky)

\* s low bits of m are dropped: all beyond the 53rd and all below 2^-1074
RoundAt(neg, m, e, sticky, s) ==
    IF s <= 0 THEN Finite(neg, m, e)
    ELSE RoundGuard(neg, BigShr(m, s - 1), e + s, sticky)

\* the double nearest to (-1)^neg * (m + f) * 2^e, where 0 <= f < 1 and
\* f > 0 exactly when sticky
Round(neg, m, e, sticky) ==
    RoundAt(neg, m, e, sticky, Max(BitLen(m) - Precision, MinExponent - e))

\* the number i * 2^e for an integer i within TLC's range
Dyadic(i, e) ==
    Finite(i < 0, BigOfInt(IF i < 0 THEN 0 - i ELSE i), e)

\* the number of the integer literal i
N(i) == Dyadic(i, 0)

\* isNaN(number)
IsNaN(a) == a.k = "nan"

Negate(a) == IF a.k = "nan" THEN a ELSE [a EXCEPT !.neg = ~a.neg]

\* x and y are the magnitudes over the common exponent e, c the sign of x - y
AddSigned(an, x, bn, y, e, c) ==
    Round(IF an = bn THEN an ELSE IF c = 0 THEN FALSE ELSE IF c > 0 THEN an ELSE bn,
          IF an = bn THEN BigAdd(x, y)
          ELSE IF c >= 0 THEN BigSub(x, y) ELSE BigSub(y, x),
          e, FALSE)

AddAligned(an, x, bn, y, e) == AddSigned(an, x, bn, y, e, BigCmp(x, y))

\* a + b
JsAdd(a, b) ==
    IF a.k = "nan" \/ b.k = "nan" THEN NaN
    ELSE IF a.k = "inf" THEN (IF b.k = "inf" /\ b.neg /= a.neg THEN NaN ELSE a)
    ELSE IF b.k = "inf" THEN b
    ELSE IF a.m = <<>> THEN (IF b.m = <<>> THEN Zero(a.neg /\ b.neg) ELSE b)
    ELSE IF b.m = <<>> THEN a
    ELSE AddAligned(a.neg, BigShl(a.m, a.e - Min(a.e, b.e)),
                    b.neg, BigShl(b.m, b.e - Min(a.e, b.e)), Min(a.e, b.e))

\* a - b
JsSub(a, b) == JsAdd(a, Negate(b))

\* a * b
JsMul(a, b) ==
    IF a.k = "nan" \/ b.k = "nan" THEN NaN
    ELSE IF a.k = "inf" \/ b.k = "inf"
    THEN (IF (a.k = "fin" /\ a.m = <<>>) \/ (b.k = "fin" /\ b.m = <<>>)
          THEN NaN ELSE Infinity(a.neg /= b.neg))
    ELSE Round(a.neg /= b.neg, BigMul(a.m, b.m), a.e + b.e, FALSE)

\* h is the quotient and remainder of the significands, a's shifted up by k
DivRound(neg, h, e) == Round(neg, h.q, e, h.r /= <<>>)

DivShifted(a, b, k) ==
    DivRound(a.neg /= b.neg, BigDivMod(BigShl(a.m, k), b.m), a.e - b.e - k)

\* a / b
JsDiv(a, b) ==
    IF a.k = "nan" \/ b.k = "nan" THEN NaN
    ELSE IF a.k = "inf" THEN (IF b.k = "inf" THEN NaN ELSE Infinity(a.neg /= b.neg))
    ELSE IF b.k = "inf" THEN Zero(a.neg /= b.neg)
    ELSE IF b.m = <<>> THEN (IF a.m = <<>> THEN NaN ELSE Infinity(a.neg /= b.neg))
    ELSE IF a.m = <<>> THEN Zero(a.neg /= b.neg)
    ELSE DivShifted(a, b, Precision + 3 + BitLen(b.m))

\* Math.ceil(a)
CeilShifted(neg, h) ==
    IF neg THEN Finite(TRUE, h.q, 0) ELSE Finite(FALSE, BigMulAdd(h.q, 1, 1), 0)

Ceil(a) ==
    IF a.k /= "fin" \/ a.e >= 0 THEN a ELSE CeilShifted(a.neg, BigShr(a.m, 0 - a.e))

\* -1, 0 or 1 as the number is negative, a zero or positive
Sign(a) == IF a.k = "fin" /\ a.m = <<>> THEN 0 ELSE IF a.neg THEN 0 - 1 ELSE 1

\* sign of |a| - |b| for finite non-zero a and b
MagnitudeCmp(a, b) ==
    IF BitLen(a.m) + a.e /= BitLen(b.m) + b.e
    THEN (IF BitLen(a.m) + a.e < BitLen(b.m) + b.e THEN 0 - 1 ELSE 1)
    ELSE BigCmp(BigShl(a.m, a.e - Min(a.e, b.e)), BigShl(b.m, b.e - Min(a.e, b.e)))

\* sign of a - b for numbers of the same non-zero sign
SameSignCmp(a, b) ==
    IF a.k = "inf" THEN (IF b.k = "inf" THEN 0 ELSE Sign(a))
    ELSE IF b.k = "inf" THEN 0 - Sign(a)
    ELSE Sign(a) * MagnitudeCmp(a, b)

\* sign of a - b; 2 when a or b is NaN
JsCmp(a, b) ==
    IF a.k = "nan" \/ b.k = "nan" THEN 2
    ELSE IF Sign(a) /= Sign(b) THEN (IF Sign(a) < Sign(b) THEN 0 - 1 ELSE 1)
    ELSE IF Sign(a) = 0 THEN 0
    ELSE SameSignCmp(a, b)

\* a <= b, a < b, a > b, a == b: false as soon as one side is NaN
JsLe(a, b) == JsCmp(a, b) \in {0 - 1, 0}
JsLt(a, b) == JsCmp(a, b) = 0 - 1
JsGt(a, b) == JsCmp(a, b) = 1
JsEq(a, b) == JsCmp(a, b) = 0

\* the value of an integral number below 2^30 in magnitude
IsSmallInt(a) == a.k = "fin" /\ a.e >= 0 /\ BitLen(a.m) + a.e <= 30
IntOf(a) ==
    (IF a.neg THEN 0 - 1 ELSE 1)
    * BigToInt(IF a.e >= 0 THEN BigShl(a.m, a.e) ELSE BigShr(a.m, 0 - a.e).q, 1)

(***************************************************************************)
(* Characters and strings                                                  *)
(***************************************************************************)
\* the printable ASCII characters in the order of their codes: 32 to 95 and
\* 97 to 126 (a string cannot hold the character of code 96 here)
Ascii32 ==
    <<" ", "!", "\"", "#", "$", "%", "&", "'", "(", ")", "*", "+", ",", "-",
      ".", "/", "0", "1", "2", "3", "4", "5", "6", "7", "8", "9", ":", ";",
      "<", "=", ">", "?", "@", "A", "B", "C", "D", "E", "F", "G", "H", "I",
      "J", "K", "L", "M", "N", "O", "P", "Q", "R", "S", "T", "U", "V", "W",
      "X", "Y", "Z", "[", "\\", "]", "^", "_">>

Ascii97 ==
    <<"a", "b", "c", "d", "e", "f", "g", "h", "i", "j", "k", "l", "m", "n",
      "o", "p", "q", "r", "s", "t", "u", "v", "w", "x", "y", "z", "{", "|",
      "}", "~">>

\* the characters of codes 160 to 255
Latin1 ==
    <<" ", "¡", "¢", "£", "¤", "¥", "¦", "§", "¨", "©", "ª", "«", "¬",
      "­", "®", "¯", "°", "±", "²", "³", "´", "µ", "¶", "·", "¸", "¹", "º",
      "»", "¼", "½", "¾", "¿", "À", "Á", "Â", "Ã", "Ä", "Å", "Æ", "Ç", "È",
      "É", "Ê", "Ë", "Ì", "Í", "Î", "Ï", "Ð", "Ñ", "Ò", "Ó", "Ô", "Õ", "Ö",
      "×", "Ø", "Ù", "Ú", "Û", "Ü", "Ý", "Þ", "ß", "à", "á", "â", "ã", "ä",
      "å", "æ", "ç", "è", "é", "ê", "ë", "ì", "í", "î", "ï", "ð", "ñ", "ò",
      "ó", "ô", "õ", "ö", "÷", "ø", "ù", "ú", "û", "ü", "ý", "þ", "ÿ">>

\* White space and line terminators (StrWhiteSpaceChar): tab, line feed,
\* vertical tab, form feed, carriage return, space, no-break space, U+1680
\* and the byte order mark.  The remaining ones (U+2000 to U+200A, U+2028,
\* U+2029, U+202F, U+205F, U+3000) cannot be written in a string here.
WhiteSpace == {"\t", "\n", "", "\f", "\r", " ", " ", " ", "﻿"}

\* position of the character in the table, 0 when it is not there
IndexIn(table, c) ==
    IF \E i \in 1..Len(table) : table[i] = c
    THEN CHOOSE i \in 1..Len(table) : table[i] = c
    ELSE 0

\* the code unit of a character: the characters above and the white space
CodeAt(c, i32, i97) ==
    IF i32 > 0 THEN 31 + i32
    ELSE IF i97 > 0 THEN 96 + i97
    ELSE IF IndexIn(Latin1, c) > 0 THEN 159 + IndexIn(Latin1, c)
    ELSE CASE c = "\t" -> 9 [] c = "\n" -> 10 [] c = "" -> 11
           [] c = "\f" -> 12 [] c = "\r" -> 13
           [] c = " " -> 5760 [] c = "﻿" -> 65279

Code(c) == CodeAt(c, IndexIn(Ascii32, c), IndexIn(Ascii97, c))

Digits == {"0", "1", "2", "3", "4", "5", "6", "7", "8", "9"}
UpperCase == {Ascii32[i] : i \in 34..59}
LowerCase == {Ascii97[i] : i \in 1..26}

\* the character of a code
CharOf(n) ==
    IF n >= 32 /\ n <= 95 THEN Ascii32[n - 31]
    ELSE IF n >= 97 /\ n <= 126 THEN Ascii97[n - 96]
    ELSE IF n >= 160 /\ n <= 255 THEN Latin1[n - 159]
    ELSE CASE n = 9 -> "\t" [] n = 10 -> "\n" [] n = 11 -> ""
           [] n = 12 -> "\f" [] n = 13 -> "\r"
           [] n = 5760 -> " " [] n = 65279 -> "﻿"

\* String.prototype.toLowerCase on one code unit: the letters A to Z and the
\* capital letters of codes 192 to 222 (215 is the multiplication sign)
LowerCode(n) ==
    IF (n >= 65 /\ n <= 90) \/ (n >= 192 /\ n <= 222 /\ n /= 215)
    THEN n + 32 ELSE n

Lower(c) == CharOf(LowerCode(Code(c)))

\* value of a digit of a radix up to 16
DigitVal(c) ==
    IF c \in Digits THEN Code(c) - 48 ELSE Code(Lower(c)) - 87

\* the digits of the radix
RadixDigits(radix) ==
    {c \in Digits \cup {"a", "b", "c", "d", "e", "f",
                        "A", "B", "C", "D", "E", "F"} : DigitVal(c) < radix}

\* index of the first character at or after i that is not in the set cs
RECURSIVE SkipWhile(_, _, _)
SkipWhile(s, i, cs) ==
    IF i <= Len(s) /\ s[i] \in cs THEN SkipWhile(s, i + 1, cs) ELSE i

\* index of the last character at or before i that is not in the set cs
RECURSIVE SkipBack(_, _, _)
SkipBack(s, i, cs) ==
    IF i >= 1 /\ s[i] \in cs THEN SkipBack(s, i - 1, cs) ELSE i

\* String.prototype.trim
Trim(s) == SubSeq(s, SkipWhile(s, 1, WhiteSpace), SkipBack(s, Len(s), WhiteSpace))

\* the string has the word w at index i
StartsWith(s, i, w) ==
    i + Len(w) - 1 <= Len(s) /\ SubSeq(s, i, i + Len(w) - 1) = w

\* String.prototype.padStart(n, "0")
RECURSIVE PadStart(_, _)
PadStart(s, n) == IF Len(s) >= n THEN s ELSE PadStart(<<"0">> \o s, n)

\* String(n) for an integer n >= 0
RECURSIVE IntToStr(_)
IntToStr(n) ==
    IF n < 10 THEN <<Ascii32[17 + n]>>
    ELSE IntToStr(n \div 10) \o <<Ascii32[17 + (n % 10)]>>

(***************************************************************************)
(* Numeric literals: parseFloat, Number and parseInt on strings            *)
(***************************************************************************)
Pow10(n) == <<1, 10, 100, 1000, 10000>>[n + 1]

\* a * 10^n
RECURSIVE ScaleUp(_, _)
ScaleUp(a, n) ==
    IF n <= 4 THEN BigMulAdd(a, Pow10(n), 0)
    ELSE Only({ScaleUp(h, n - (n \div 2)) : h \in {ScaleUp(a, n \div 2)}})

\* a \div 10^n [q], and whether the division left a remainder [sticky]
RECURSIVE ScaleDown(_, _)
ScaleDownLast(h) == [q |-> BigTrim(h.out), sticky |-> h.c /= 0]

ScaleDownJoin(first, second) ==
    [q |-> second.q, sticky |-> first.sticky \/ second.sticky]

ScaleDownRest(first, n) == ScaleDownJoin(first, ScaleDown(first.q, n))

ScaleDown(a, n) ==
    IF n <= 4 THEN ScaleDownLast(BigDivSmall(a, Pow10(n)))
    ELSE Only({ScaleDownRest(h, n - (n \div 2)) : h \in {ScaleDown(a, n \div 2)}})

\* beyond 10^400 every literal is Infinity, below 10^-400 every one is 0
MaxDecimalExponent == 400

\* the digits s[i..j] of the radix appended to the natural number acc
RECURSIVE DigitsBig(_, _, _, _, _)
DigitsBig(acc, s, i, j, radix) ==
    IF i > j THEN acc
    ELSE Only({DigitsBig(acc2, s, i + 1, j, radix) :
                   acc2 \in {BigMulAdd(acc, radix, DigitVal(s[i]))}})

\* the digits s[i..j] appended to the integer acc, as far as the value
\* matters: beyond MaxDecimalExponent digits more it stays out of range
RECURSIVE DigitsCapped(_, _, _, _)
DigitsCapped(acc, s, i, j) ==
    IF i > j \/ acc > 100 * MaxDecimalExponent THEN acc
    ELSE DigitsCapped(acc * 10 + DigitVal(s[i]), s, i + 1, j)

DecimalDown(neg, h, e) == Round(neg, h.q, e, h.sticky)

\* the double nearest to (-1)^neg * d * 10^x
Decimal(neg, d, x) ==
    IF d = <<>> THEN Zero(neg)
    ELSE IF x >= 0
    THEN (IF x > MaxDecimalExponent THEN Infinity(neg)
          ELSE Round(neg, ScaleUp(d, x), 0, FALSE))
    ELSE IF 0 - x > BitLen(d) + MaxDecimalExponent THEN Zero(neg)
    ELSE DecimalDown(neg, ScaleDown(BigShl(d, 64 + 4 * (0 - x)), 0 - x),
                     0 - (64 + 4 * (0 - x)))

\* StrDecimalLiteral read from index i: an optional sign, then Infinity, or
\* digits with an optional point and an optional exponent part.  Returns the
\* number read and the index after the literal; the number is NaN when there
\* is no literal at i.
\*   i1 the index after the sign, i2 after the integer digits, i3 after the
\*   point and the fraction digits, i4 after the exponent part, j the index
\*   of the first exponent digit
ExponentOf(s, i3, i4, j) ==
    IF i4 = i3 THEN 0
    ELSE (IF s[i3 + 1] = "-" THEN 0 - 1 ELSE 1) * DigitsCapped(0, s, j, i4 - 1)

ScanValue(s, neg, i1, i2, i3, i4, j) ==
    [num |-> Decimal(neg,
                     DigitsBig(DigitsBig(<<>>, s, i1, i2 - 1, 10),
                               s, i2 + 1, i3 - 1, 10),
                     ExponentOf(s, i3, i4, j)
                     - (IF i3 > i2 THEN i3 - i2 - 1 ELSE 0)),
     end |-> i4]

\* the exponent part is read only when a digit follows the e and the sign
ScanExponentDigits(s, neg, i1, i2, i3, j) ==
    ScanValue(s, neg, i1, i2, i3,
              IF SkipWhile(s, j, Digits) > j THEN SkipWhile(s, j, Digits) ELSE i3,
              j)

ScanExponent(s, neg, i1, i2, i3) ==
    IF i3 <= Len(s) /\ s[i3] \in {"e", "E"}
    THEN ScanExponentDigits(s, neg, i1, i2, i3,
             IF i3 + 1 <= Len(s) /\ s[i3 + 1] \in {"-", "+"}
             THEN i3 + 2 ELSE i3 + 1)
    ELSE ScanValue(s, neg, i1, i2, i3, i3, i3)

ScanFraction(s, i, neg, i1, i2, i3) ==
    IF (i2 - i1) + (IF i3 > i2 THEN i3 - i2 - 1 ELSE 0) = 0
    THEN [num |-> NaN, end |-> i]
    ELSE ScanExponent(s, neg, i1, i2, i3)

ScanDigits(s, i, neg, i1, i2) ==
    ScanFraction(s, i, neg, i1, i2,
                 IF i2 <= Len(s) /\ s[i2] = "."
                 THEN SkipWhile(s, i2 + 1, Digits) ELSE i2)

ScanSigned(s, i, neg, i1) ==
    IF StartsWith(s, i1, <<"I", "n", "f", "i", "n", "i", "t", "y">>)
    THEN [num |-> Infinity(neg), end |-> i1 + 8]
    ELSE ScanDigits(s, i, neg, i1, SkipWhile(s, i1, Digits))

ScanDecimal(s, i) ==
    IF i <= Len(s) /\ s[i] \in {"-", "+"}
    THEN ScanSigned(s, i, s[i] = "-", i + 1)
    ELSE ScanSigned(s, i, FALSE, i)

\* parseFloat(string): leading white space is skipped, the longest prefix
\* that is a literal is read, anything after it is ignored
ParseFloatStr(s) == ScanDecimal(s, SkipWhile(s, 1, WhiteSpace)).num

\* the radix a prefix 0x, 0o or 0b announces; 10 when there is none
PrefixRadix(t, i) ==
    IF i + 1 <= Len(t) /\ t[i] = "0"
    THEN CASE t[i + 1] \in {"x", "X"} -> 16
           [] t[i + 1] \in {"o", "O"} -> 8
           [] t[i + 1] \in {"b", "B"} -> 2
           [] OTHER -> 10
    ELSE 10

\* a literal 0x.., 0o.. or 0b..: digits of the radix from the third character
\* to the last
NumberOfRadix(t, radix) ==
    IF Len(t) > 2 /\ SkipWhile(t, 3, RadixDigits(radix)) = Len(t) + 1
    THEN Round(FALSE, DigitsBig(<<>>, t, 3, Len(t), radix), 0, FALSE)
    ELSE NaN

NumberOfScan(t, r) == IF r.end /= Len(t) + 1 THEN NaN ELSE r.num

\* Number(string): the trimmed string is empty (0), a literal with a radix
\* prefix, or a decimal literal from its first to its last character;
\* anything else is NaN
NumberOfTrimmed(t) ==
    IF t = <<>> THEN Zero(FALSE)
    ELSE IF PrefixRadix(t, 1) /= 10 THEN NumberOfRadix(t, PrefixRadix(t, 1))
    ELSE NumberOfScan(t, ScanDecimal(t, 1))

ToNumberStr(s) == NumberOfTrimmed(Trim(s))

\* parseInt(string) with no radix: white space, an optional sign, an
\* optional 0x or 0X that makes the radix 16, then the longest run of digits
\* of the radix; NaN when the run is empty
ParseIntDigits(s, neg, radix, i1, i2) ==
    IF i2 = i1 THEN NaN
    ELSE Round(neg, DigitsBig(<<>>, s, i1, i2 - 1, radix), 0, FALSE)

ParseIntRadix(s, neg, radix, i1) ==
    ParseIntDigits(s, neg, radix, i1, SkipWhile(s, i1, RadixDigits(radix)))

ParseIntSigned(s, neg, i) ==
    IF PrefixRadix(s, i) = 16 THEN ParseIntRadix(s, neg, 16, i + 2)
    ELSE ParseIntRadix(s, neg, 10, i)

ParseIntAt(s, i) ==
    IF i <= Len(s) /\ s[i] \in {"-", "+"}
    THEN ParseIntSigned(s, s[i] = "-", i + 1)
    ELSE ParseIntSigned(s, FALSE, i)

ParseInt(s) == ParseIntAt(s, SkipWhile(s, 1, WhiteSpace))

(***************************************************************************)
(* Dates.  A Date holds a time value, an instant in milliseconds since     *)
(* 1970-01-01T00:00Z, or NaN (the Invalid Date).  The instant is the pair  *)
(* of its day number and its millisecond within the day:                   *)
(* [valid, day, ms] stands for day * MsPerDay + ms, 0 <= ms < MsPerDay.    *)
(***************************************************************************)
MsPerDay == 86400000
MsPerMinute == 60000
SecondsPerDay == 86400

\* TimeClip: the largest day number of a time value
MaxDay == 100000000

\* the years MakeDay takes
MaxYear == 1000000

\* "no value" in the fields of the composers of the parser
None == 2147483647

DateAt(day, ms) == [valid |-> TRUE, day |-> day, ms |-> ms]
InvalidDate == [valid |-> FALSE, day |-> 0, ms |-> 0]

\* the instant t moved by d days and m milliseconds
Shift(t, d, m) ==
    DateAt(t.day + d + ((t.ms + m) \div MsPerDay), (t.ms + m) % MsPerDay)

\* a < b on instants
Before(a, b) == a.day < b.day \/ (a.day = b.day /\ a.ms < b.ms)

\* TimeClip(t)
TimeClip(t) ==
    IF t.valid /\ (0 - MaxDay) <= t.day
       /\ (t.day < MaxDay \/ (t.day = MaxDay /\ t.ms = 0))
    THEN t ELSE InvalidDate

IsLeap(y) == (y % 4 = 0 /\ y % 100 /= 0) \/ y % 400 = 0

\* day number of 1 January of year y
DayFromYear(y) ==
    365 * (y - 1970) + ((y - 1969) \div 4) - ((y - 1901) \div 100)
    + ((y - 1601) \div 400)

\* days of a year before its month m (0 = January)
DaysBeforeMonth(leap, m) ==
    <<0, 31, 59, 90, 120, 151, 181, 212, 243, 273, 304, 334>>[m + 1]
    + (IF leap /\ m >= 2 THEN 1 ELSE 0)

\* MakeDay(year, month, date) on integers: a month outside 0..11 carries
\* into the year, a date outside the month into the neighbouring months
MakeDay(year, month, date) ==
    DayFromYear(year + (month \div 12))
    + DaysBeforeMonth(IsLeap(year + (month \div 12)), month % 12) + date - 1

\* year, month (0 = January) and day of the month of a day number.  era is
\* the 400-year cycle (from 1 March of year 0), doe the day of the era, yoe
\* the year of the era, doy the day of the year from 1 March, mp its month
CivilOfMonth(y, doy, mp) ==
    [year |-> IF mp < 10 THEN y ELSE y + 1,
     month |-> IF mp < 10 THEN mp + 2 ELSE mp - 10,
     date |-> doy - ((153 * mp + 2) \div 5) + 1]

CivilOfDoy(y, doy) == CivilOfMonth(y, doy, (5 * doy + 2) \div 153)

CivilOfYoe(era, doe, yoe) ==
    CivilOfDoy(yoe + era * 400,
               doe - (365 * yoe + (yoe \div 4) - (yoe \div 100)))

CivilOfDoe(era, doe) ==
    CivilOfYoe(era, doe,
               (doe - (doe \div 1460) + (doe \div 36524) - (doe \div 146096))
               \div 365)

CivilOfEra(z, era) == CivilOfDoe(era, z - era * 146097)

CivilFromDay(n) == CivilOfEra(n + 719468, (n + 719468) \div 146097)

\* day of the week of a day number, 0 = Sunday
WeekDay(n) == (n + 4) % 7

\* the instant of y-m-d h:mi UTC (m in 1..12)
UTC(y, m, d, h, mi) ==
    DateAt(MakeDay(y, m - 1, d), (h * 60 + mi) * MsPerMinute)

(***************************************************************************)
(* The time zone of the host: std is the offset of its standard time from  *)
(* UTC in minutes, rule the daylight saving rule, one hour ahead of        *)
(* standard time:                                                          *)
(*   "eu"  from 01:00 UTC of the last Sunday of March to 01:00 UTC of the  *)
(*         last Sunday of October (in force since 1996),                   *)
(*   "us"  from 02:00 local time of the second Sunday of March to 02:00    *)
(*         local time of the first Sunday of November (since 2007),        *)
(*   "none" no daylight saving.                                            *)
(***************************************************************************)
Zone(std, rule) == [std |-> std, rule |-> rule]

DstMinutes == 60

\* the first day of the week w on or after day n
OnOrAfter(n, w) == n + ((w - WeekDay(n)) % 7)

\* the instants of year y at which daylight saving starts and ends
DstStart(zone, y) ==
    IF zone.rule = "eu"
    THEN Shift(DateAt(OnOrAfter(MakeDay(y, 3, 1) - 7, 0), 0), 0, 60 * MsPerMinute)
    ELSE Shift(DateAt(OnOrAfter(MakeDay(y, 2, 1), 0) + 7, 0), 0,
               (120 - zone.std) * MsPerMinute)

DstEnd(zone, y) ==
    IF zone.rule = "eu"
    THEN Shift(DateAt(OnOrAfter(MakeDay(y, 10, 1) - 7, 0), 0), 0, 60 * MsPerMinute)
    ELSE Shift(DateAt(OnOrAfter(MakeDay(y, 10, 1), 0), 0), 0,
               (120 - zone.std - DstMinutes) * MsPerMinute)

\* offset of local time from UTC, in minutes, at the instant t
OffsetAtUTC(zone, t) ==
    IF zone.rule /= "none"
       /\ ~Before(t, DstStart(zone, CivilFromDay(t.day).year))
       /\ Before(t, DstEnd(zone, CivilFromDay(t.day).year))
    THEN zone.std + DstMinutes
    ELSE zone.std

\* offset of the local time l: a local time that a change of the offset
\* skips or repeats is read with the offset in force before the change
OffsetAtLocal(zone, l) ==
    IF zone.rule /= "none"
       /\ ~Before(l, Shift(DstStart(zone, CivilFromDay(l.day).year), 0,
                           (zone.std + DstMinutes) * MsPerMinute))
       /\ Before(l, Shift(DstEnd(zone, CivilFromDay(l.day).year), 0,
                          (zone.std + DstMinutes) * MsPerMinute))
    THEN zone.std + DstMinutes
    ELSE zone.std

\* LocalTime(t) and UTC(l)
ToLocal(zone, t) == Shift(t, 0, OffsetAtUTC(zone, t) * MsPerMinute)
ToUTC(zone, l) == Shift(l, 0, (0 - OffsetAtLocal(zone, l)) * MsPerMinute)

\* a local time value becomes the time value of a Date: out of the range
\* of a time value by more than a month it is NaN before any conversion
FromLocal(zone, l) ==
    IF l.day > MaxDay + 30 \/ l.day < 0 - (MaxDay + 30) THEN InvalidDate
    ELSE TimeClip(ToUTC(zone, l))

\* Date.prototype.getMonth(): the month of the date in local time, NaN for
\* the Invalid Date
GetMonth(date, zone) ==
    IF ~date.valid THEN NaN
    ELSE N(CivilFromDay(ToLocal(zone, date).day).month)

\* Date.prototype.setMonth(month): the month of the local time is replaced,
\* its day of the month and its time within the day are kept.  c is the
\* civil date of the local time l, m the integer part of month.
SetMonthLocal(zone, l, c, m) ==
    FromLocal(zone, DateAt(MakeDay(c.year, m, c.date), l.ms))

SetMonthAt(zone, l, month) ==
    IF month.k /= "fin" \/ JsGt(month, N(10 * MaxYear))
       \/ JsLt(month, N(0 - 10 * MaxYear))
    THEN InvalidDate
    ELSE SetMonthLocal(zone, l, CivilFromDay(l.day), IntOf(month))

SetMonth(date, month, zone) ==
    IF ~date.valid THEN InvalidDate
    ELSE SetMonthAt(zone, ToLocal(zone, date), month)

(***************************************************************************)
(* new Date(string): the engine's date parser.  The string is cut into     *)
(* tokens; the ES5 date-time format is tried first and what it leaves is   *)
(* read by the legacy parser, which fills the day, the time and the time   *)
(* zone composer.                                                          *)
(***************************************************************************)
\* a token: k its kind ("number", "symbol", "keyword", "space", "unknown",
\* "end"), type the character of a symbol or the type of a keyword, v the
\* value of a number or keyword, len the characters of a number or word
Token(k, type, v, len) == [k |-> k, type |-> type, v |-> v, len |-> len]
EndOfInput == Token("end", "", 0, 0)

\* the words the parser knows, by their first three letters in lower case
KeywordTable ==
    <<[w |-> <<"j", "a", "n">>, type |-> "month", v |-> 1],
      [w |-> <<"f", "e", "b">>, type |-> "month", v |-> 2],
      [w |-> <<"m", "a", "r">>, type |-> "month", v |-> 3],
      [w |-> <<"a", "p", "r">>, type |-> "month", v |-> 4],
      [w |-> <<"m", "a", "y">>, type |-> "month", v |-> 5],
      [w |-> <<"j", "u", "n">>, type |-> "month", v |-> 6],
      [w |-> <<"j", "u", "l">>, type |-> "month", v |-> 7],
      [w |-> <<"a", "u", "g">>, type |-> "month", v |-> 8],
      [w |-> <<"s", "e", "p">>, type |-> "month", v |-> 9],
      [w |-> <<"o", "c", "t">>, type |-> "month", v |-> 10],
      [w |-> <<"n", "o", "v">>, type |-> "month", v |-> 11],
      [w |-> <<"d", "e", "c">>, type |-> "month", v |-> 12],
      [w |-> <<"a", "m">>, type |-> "ampm", v |-> 0],
      [w |-> <<"p", "m">>, type |-> "ampm", v |-> 12],
      [w |-> <<"u", "t">>, type |-> "zone", v |-> 0],
      [w |-> <<"u", "t", "c">>, type |-> "zone", v |-> 0],
      [w |-> <<"z">>, type |-> "zone", v |-> 0],
      [w |-> <<"g", "m", "t">>, type |-> "zone", v |-> 0],
      [w |-> <<"c", "d", "t">>, type |-> "zone", v |-> 0 - 5],
      [w |-> <<"c", "s", "t">>, type |-> "zone", v |-> 0 - 6],
      [w |-> <<"e", "d", "t">>, type |-> "zone", v |-> 0 - 4],
      [w |-> <<"e", "s", "t">>, type |-> "zone", v |-> 0 - 5],
      [w |-> <<"m", "d", "t">>, type |-> "zone", v |-> 0 - 6],
      [w |-> <<"m", "s", "t">>, type |-> "zone", v |-> 0 - 7],
      [w |-> <<"p", "d", "t">>, type |-> "zone", v |-> 0 - 7],
      [w |-> <<"p", "s", "t">>, type |-> "zone", v |-> 0 - 8],
      [w |-> <<"t">>, type |-> "separator", v |-> 0]>>

\* the entries the word can be: same first three letters, and a word longer
\* than three letters is a month name only
KeywordMatches(prefix, len) ==
    {i \in 1..Len(KeywordTable) :
        /\ KeywordTable[i].w = prefix
        /\ (len <= 3 \/ KeywordTable[i].type = "month")}

KeywordOf(matches, len) ==
    IF matches = {} THEN Token("keyword", "invalid", 0, len)
    ELSE Token("keyword", KeywordTable[Only(matches)].type,
               KeywordTable[Only(matches)].v, len)

\* the word s[i..j-1]
Keyword(s, i, j) ==
    KeywordOf(KeywordMatches([n \in 1..Min(j - i, 3) |-> Lower(s[i + n - 1])],
                             j - i),
              j - i)

\* the digits count at most 9 of them after the leading zeros
MaxSignificantDigits == 9

\* value of the digits s[i..j] (0 when there is none)
RECURSIVE DigitsValue(_, _, _)
DigitsValue(s, i, j) ==
    IF j < i THEN 0 ELSE DigitsValue(s, i, j - 1) * 10 + DigitVal(s[j])

\* the numeral s[i..j-1]; z is the index after its leading zeros
UnsignedNumeral(s, i, j, z) ==
    Token("number", "", DigitsValue(s, z, Min(j - 1, z + MaxSignificantDigits - 1)),
          j - i)

\* index after the parentheses that open at i
RECURSIVE SkipParentheses(_, _, _)
SkipParentheses(s, i, balance) ==
    IF i > Len(s) THEN i
    ELSE IF s[i] = ")" /\ balance = 1 THEN i + 1
    ELSE SkipParentheses(s, i + 1,
                         IF s[i] = ")" THEN balance - 1
                         ELSE IF s[i] = "(" THEN balance + 1 ELSE balance)

\* the characters of a word: at or above "A" and no white space
WordChar(c) == Code(c) >= 65 /\ c \notin WhiteSpace

RECURSIVE SkipWord(_, _)
SkipWord(s, i) == IF i <= Len(s) /\ WordChar(s[i]) THEN SkipWord(s, i + 1) ELSE i

\* the token at index i <= Len(s) [tok] and the index after it [end]
Scan(s, i) ==
    IF s[i] \in Digits
    THEN [tok |-> UnsignedNumeral(s, i, SkipWhile(s, i, Digits),
                                  SkipWhile(s, i, {"0"})),
          end |-> SkipWhile(s, i, Digits)]
    ELSE IF s[i] \in {":", "-", "+", ".", ")"}
    THEN [tok |-> Token("symbol", s[i], 0, 1), end |-> i + 1]
    ELSE IF WordChar(s[i])
    THEN [tok |-> Keyword(s, i, SkipWord(s, i)), end |-> SkipWord(s, i)]
    ELSE IF s[i] \in WhiteSpace
    THEN [tok |-> Token("space", "", 0, 1), end |-> i + 1]
    ELSE IF s[i] = "("
    THEN [tok |-> Token("unknown", "", 0, 0), end |-> SkipParentheses(s, i, 0)]
    ELSE [tok |-> Token("unknown", "", 0, 0), end |-> i + 1]

\* the tokens of the string from index i on
RECURSIVE Tokens(_, _)
TokensAfter(s, t) == <<t.tok>> \o Tokens(s, t.end)

Tokens(s, i) == IF i > Len(s) THEN <<>> ELSE TokensAfter(s, Scan(s, i))

Peek(toks, i) == IF i <= Len(toks) THEN toks[i] ELSE EndOfInput

IsSymbol(tok, c) == tok.k = "symbol" /\ tok.type = c
IsAsciiSign(tok) == IsSymbol(tok, "+") \/ IsSymbol(tok, "-")
IsFixedNumber(tok, len) == tok.k = "number" /\ tok.len = len
IsKeywordZ(tok) == tok.k = "keyword" /\ tok.type = "zone" /\ tok.len = 1

\* index after the symbol c when the token at i is that symbol, else i
SkipSymbol(toks, i, c) == IF IsSymbol(Peek(toks, i), c) THEN i + 1 ELSE i

IsMonth(x) == 1 <= x /\ x <= 12
IsDay(x) == 1 <= x /\ x <= 31
IsHour(x) == 0 <= x /\ x <= 23
IsHour12(x) == 0 <= x /\ x <= 12
IsMinute(x) == 0 <= x /\ x <= 59
IsSecond(x) == 0 <= x /\ x <= 59
IsMillisecond(x) == 0 <= x /\ x <= 999

\* The composers: day and time hold the components read so far, named the
\* month given by name, iso whether the date is in the ES5 format,
\* hourOffset the AM/PM offset, sign, hour and minute the time zone, read
\* whether a number has been read; ok turns FALSE when the parse fails and
\* i is the index of the next token.
Composers ==
    [ok |-> TRUE, i |-> 1, day |-> <<>>, named |-> None, iso |-> FALSE,
     time |-> <<>>, hourOffset |-> None, sign |-> None, hour |-> None,
     minute |-> None, read |-> FALSE]

Failed(st) == [st EXCEPT !.ok = FALSE]

\* TimeZoneComposer::Set(offset_in_hours)
TzSet(st, hours) ==
    [st EXCEPT !.sign = IF hours < 0 THEN 0 - 1 ELSE 1,
               !.hour = IF hours < 0 THEN 0 - hours ELSE hours,
               !.minute = 0]

\* ReadMilliseconds: the first three digits of the fraction of a second
ReadMilliseconds(tok) ==
    IF tok.len = 1 THEN tok.v * 100
    ELSE IF tok.len = 2 THEN tok.v * 10
    ELSE IF tok.len = 3 THEN tok.v
    ELSE tok.v \div <<10, 100, 1000, 10000, 100000, 1000000>>
                        [Min(tok.len, MaxSignificantDigits) - 3]

(***************************************************************************)
(* ParseES5DateTime: [+-]YYYYYY or YYYY, then -MM, then -DD, then          *)
(* THH:mm[:ss[.sss]] and Z or +hh:mm.  One operator per position in the    *)
(* format; each returns the composers with i at the token the legacy       *)
(* parser goes on from, iso set when the whole string was in the format.   *)
(***************************************************************************)
\* the string was in the format: a date without time and zone is UTC
ES5Done(st) ==
    [(IF st.hour = None /\ st.time = <<>> THEN TzSet(st, 0) ELSE st)
        EXCEPT !.iso = TRUE]

ES5End(toks, st) ==
    IF Peek(toks, st.i).k = "end" THEN ES5Done(st) ELSE Failed(st)

\* after the sign of the zone: hhmm or hh:mm
ES5ZoneOffset(toks, st) ==
    IF IsFixedNumber(Peek(toks, st.i), 4)
    THEN (IF IsHour(Peek(toks, st.i).v \div 100)
             /\ IsMinute(Peek(toks, st.i).v % 100)
          THEN ES5End(toks, [st EXCEPT !.hour = Peek(toks, st.i).v \div 100,
                                       !.minute = Peek(toks, st.i).v % 100,
                                       !.i = st.i + 1])
          ELSE Failed(st))
    ELSE IF /\ IsFixedNumber(Peek(toks, st.i), 2)
            /\ IsHour(Peek(toks, st.i).v)
            /\ IsSymbol(Peek(toks, st.i + 1), ":")
            /\ IsFixedNumber(Peek(toks, st.i + 2), 2)
            /\ IsMinute(Peek(toks, st.i + 2).v)
    THEN ES5End(toks, [st EXCEPT !.hour = Peek(toks, st.i).v,
                                 !.minute = Peek(toks, st.i + 2).v,
                                 !.i = st.i + 3])
    ELSE Failed(st)

\* after the time: Z, a signed offset, or nothing
ES5Zone(toks, st) ==
    IF IsKeywordZ(Peek(toks, st.i))
    THEN ES5End(toks, [TzSet(st, 0) EXCEPT !.i = st.i + 1])
    ELSE IF IsAsciiSign(Peek(toks, st.i))
    THEN ES5ZoneOffset(toks,
             [st EXCEPT !.sign = IF IsSymbol(Peek(toks, st.i), "+")
                                 THEN 1 ELSE 0 - 1,
                        !.i = st.i + 1])
    ELSE ES5End(toks, st)

\* after the seconds: an optional fraction; the hour 24 goes with zeros only
ES5Fraction(toks, st, is24) ==
    IF ~IsSymbol(Peek(toks, st.i), ".") THEN ES5Zone(toks, st)
    ELSE IF Peek(toks, st.i + 1).k /= "number"
            \/ (is24 /\ Peek(toks, st.i + 1).v > 0)
    THEN Failed(st)
    ELSE ES5Zone(toks, [st EXCEPT !.time = Append(st.time,
                                      ReadMilliseconds(Peek(toks, st.i + 1))),
                                  !.i = st.i + 2])

\* after the minutes: optional seconds
ES5Seconds(toks, st, is24) ==
    IF ~IsSymbol(Peek(toks, st.i), ":") THEN ES5Zone(toks, st)
    ELSE IF ~IsFixedNumber(Peek(toks, st.i + 1), 2)
            \/ ~IsSecond(Peek(toks, st.i + 1).v)
            \/ (is24 /\ Peek(toks, st.i + 1).v > 0)
    THEN Failed(st)
    ELSE ES5Fraction(toks, [st EXCEPT !.time = Append(st.time,
                                          Peek(toks, st.i + 1).v),
                                      !.i = st.i + 2], is24)

\* after the T: HH:mm
ES5Time(toks, st) ==
    IF \/ ~IsFixedNumber(Peek(toks, st.i), 2)
       \/ Peek(toks, st.i).v > 24
       \/ ~IsSymbol(Peek(toks, st.i + 1), ":")
       \/ ~IsFixedNumber(Peek(toks, st.i + 2), 2)
       \/ ~IsMinute(Peek(toks, st.i + 2).v)
       \/ (Peek(toks, st.i).v = 24 /\ Peek(toks, st.i + 2).v > 0)
    THEN Failed(st)
    ELSE ES5Seconds(toks, [st EXCEPT !.time = <<Peek(toks, st.i).v,
                                                Peek(toks, st.i + 2).v>>,
                                     !.i = st.i + 3],
                    Peek(toks, st.i).v = 24)

\* after the date: the T of a time, the end, or a token for the legacy
\* parser, which takes it from the token after i on
ES5AfterDate(toks, st) ==
    IF Peek(toks, st.i).k = "keyword" /\ Peek(toks, st.i).type = "separator"
    THEN ES5Time(toks, [st EXCEPT !.i = st.i + 1])
    ELSE IF Peek(toks, st.i).k = "end" THEN ES5Done(st)
    ELSE st

\* after the month: -DD
ES5Day(toks, st) ==
    IF ~IsSymbol(Peek(toks, st.i), "-") THEN ES5AfterDate(toks, st)
    ELSE IF IsFixedNumber(Peek(toks, st.i + 1), 2)
            /\ IsDay(Peek(toks, st.i + 1).v)
    THEN ES5AfterDate(toks, [st EXCEPT !.day = Append(st.day,
                                           Peek(toks, st.i + 1).v),
                                       !.i = st.i + 2])
    ELSE [st EXCEPT !.i = st.i + 1]

\* after the year: -MM
ES5Month(toks, st) ==
    IF ~IsSymbol(Peek(toks, st.i), "-") THEN ES5AfterDate(toks, st)
    ELSE IF IsFixedNumber(Peek(toks, st.i + 1), 2)
            /\ IsMonth(Peek(toks, st.i + 1).v)
    THEN ES5Day(toks, [st EXCEPT !.day = Append(st.day,
                                      Peek(toks, st.i + 1).v),
                                 !.i = st.i + 2])
    ELSE [st EXCEPT !.i = st.i + 1]

\* the year: a sign and six digits, or four digits.  A sign that no six
\* digits follow is left to the legacy parser; the year -000000 is unknown.
ParseES5DateTime(toks) ==
    IF IsAsciiSign(Peek(toks, 1))
    THEN (IF ~IsFixedNumber(Peek(toks, 2), 6) THEN Composers
          ELSE IF IsSymbol(Peek(toks, 1), "-") /\ Peek(toks, 2).v = 0
          THEN [Composers EXCEPT !.i = 3]
          ELSE ES5Month(toks,
                   [Composers EXCEPT
                       !.day = <<(IF IsSymbol(Peek(toks, 1), "-")
                                  THEN 0 - 1 ELSE 1) * Peek(toks, 2).v>>,
                       !.i = 3]))
    ELSE IF IsFixedNumber(Peek(toks, 1), 4)
    THEN ES5Month(toks, [Composers EXCEPT !.day = <<Peek(toks, 1).v>>, !.i = 2])
    ELSE Composers

(***************************************************************************)
(* The legacy parser: one step per token.  tok is the token taken and p    *)
(* the index of the token after it.                                        *)
(***************************************************************************)
\* TimeComposer::IsExpecting
TimeIsExpecting(st, n) ==
    \/ Len(st.time) = 1 /\ IsMinute(n)
    \/ Len(st.time) = 2 /\ IsSecond(n)
    \/ Len(st.time) = 3 /\ IsMillisecond(n)

\* TimeComposer::AddFinal: the component, then zeros; nothing when full
TimeAddFinal(time, n) ==
    IF Len(time) >= 4 THEN time
    ELSE Append(time, n) \o [k \in 1..(3 - Len(time)) |-> 0]

\* TimeZoneComposer::IsExpecting and IsUTC
TzIsExpecting(st, n) == st.hour /= None /\ st.minute = None /\ IsMinute(n)
TzIsUTC(st) == st.hour = 0 /\ st.minute = 0

\* a number that no ":" follows and that is no time before a "."; q is the
\* index after the "." when one followed the number
LegacyPlainNumber(toks, st, n, q) ==
    IF TzIsExpecting(st, n) THEN [st EXCEPT !.minute = n, !.i = q]
    ELSE IF TimeIsExpecting(st, n)
    THEN (IF \/ Peek(toks, q).k \in {"end", "space"}
             \/ IsKeywordZ(Peek(toks, q))
             \/ IsAsciiSign(Peek(toks, q))
          THEN [st EXCEPT !.time = TimeAddFinal(st.time, n), !.i = q]
          ELSE Failed(st))
    ELSE IF Len(st.day) >= 3 THEN Failed(st)
    ELSE [st EXCEPT !.day = Append(st.day, n), !.i = SkipSymbol(toks, q, "-")]

LegacyNumber(toks, st, n, p) ==
    IF IsSymbol(Peek(toks, p), ":")
    THEN (IF IsSymbol(Peek(toks, p + 1), ":")
          THEN (IF st.time /= <<>> THEN Failed(st)
                ELSE [st EXCEPT !.time = <<n, 0>>, !.i = p + 2])
          ELSE IF Len(st.time) >= 4 THEN Failed(st)
          ELSE [st EXCEPT !.time = Append(st.time, n),
                          !.i = SkipSymbol(toks, p + 1, ".")])
    ELSE IF IsSymbol(Peek(toks, p), ".") /\ TimeIsExpecting(st, n)
    THEN (IF Peek(toks, p + 1).k /= "number" THEN Failed(st)
          ELSE [st EXCEPT !.time = TimeAddFinal(Append(st.time, n),
                                       ReadMilliseconds(Peek(toks, p + 1))),
                          !.i = p + 2])
    ELSE LegacyPlainNumber(toks, st, n, SkipSymbol(toks, p, "."))

LegacyKeyword(toks, st, tok, p) ==
    IF tok.type = "ampm" /\ st.time /= <<>>
    THEN [st EXCEPT !.hourOffset = tok.v, !.i = p]
    ELSE IF tok.type = "month"
    THEN [st EXCEPT !.named = tok.v, !.i = SkipSymbol(toks, p, "-")]
    ELSE IF tok.type = "zone" /\ st.read
    THEN [TzSet(st, tok.v) EXCEPT !.i = p]
    ELSE IF st.read \/ Peek(toks, p).k = "number" THEN Failed(st)
    ELSE [st EXCEPT !.i = p]

\* a UTC offset: the sign, then the number num of len digits (0 of 0 digits
\* when no number follows); q is the index after them
LegacyOffset(toks, st, num, len, q) ==
    IF IsSymbol(Peek(toks, q), ":")
    THEN [st EXCEPT !.hour = num, !.minute = None, !.i = q]
    ELSE IF len \in {1, 2}
    THEN [st EXCEPT !.hour = num, !.minute = 0, !.i = q]
    ELSE IF len \in {3, 4}
    THEN [st EXCEPT !.hour = num \div 100, !.minute = num % 100, !.i = q]
    ELSE Failed(st)

LegacySign(toks, st, tok, p) ==
    IF Peek(toks, p).k = "number"
    THEN LegacyOffset(toks,
             [st EXCEPT !.sign = IF tok.type = "+" THEN 1 ELSE 0 - 1,
                        !.read = TRUE],
             Peek(toks, p).v, Peek(toks, p).len, p + 1)
    ELSE LegacyOffset(toks,
             [st EXCEPT !.sign = IF tok.type = "+" THEN 1 ELSE 0 - 1,
                        !.read = TRUE],
             0, 0, p)

LegacyToken(toks, st, tok, p) ==
    IF tok.k = "number"
    THEN LegacyNumber(toks, [st EXCEPT !.read = TRUE], tok.v, p)
    ELSE IF tok.k = "keyword" THEN LegacyKeyword(toks, st, tok, p)
    ELSE IF IsAsciiSign(tok) /\ (TzIsUTC(st) \/ st.time /= <<>>)
    THEN LegacySign(toks, st, tok, p)
    ELSE IF (IsAsciiSign(tok) \/ IsSymbol(tok, ")")) /\ st.read
    THEN Failed(st)
    ELSE [st EXCEPT !.i = p]

RECURSIVE LegacyLoop(_, _)
LegacyLoop(toks, st) ==
    IF ~st.ok \/ st.i > Len(toks) THEN st
    ELSE LegacyLoop(toks,
             Only({LegacyToken(toks, x, toks[x.i], x.i + 1) : x \in {st}}))

\* DateParser::Parse up to the composers
ParseTokens(toks) ==
    LegacyLoop(toks, Only({[x EXCEPT !.read = x.day /= <<>>] :
                              x \in {ParseES5DateTime(toks)}}))

(***************************************************************************)
(* What the composers hold is written out as year, month, day, time of     *)
(* day and offset.                                                         *)
(***************************************************************************)
\* the year of a date that is not in the ES5 format: 0 to 49 are 2000 to
\* 2049, 50 to 99 are 1950 to 1999
LegacyYear(iso, year) ==
    IF iso THEN year
    ELSE IF 0 <= year /\ year <= 49 THEN year + 2000
    ELSE IF 50 <= year /\ year <= 99 THEN year + 1900
    ELSE year

\* DayComposer::Write on the three components c (missing ones are 1)
DayWriteOf(st, c) ==
    IF st.named = None
    THEN (IF st.iso \/ ~IsDay(c[1])
          THEN [year |-> LegacyYear(st.iso, c[1]), month |-> c[2], day |-> c[3]]
          ELSE [year |-> LegacyYear(st.iso, c[3]), month |-> c[1], day |-> c[2]])
    ELSE IF ~IsDay(c[1])
    THEN [year |-> LegacyYear(st.iso, c[1]), month |-> st.named, day |-> c[2]]
    ELSE [year |-> LegacyYear(st.iso, c[2]), month |-> st.named, day |-> c[1]]

DayWrite(st) == DayWriteOf(st, st.day \o [k \in 1..(3 - Len(st.day)) |-> 1])

\* TimeComposer::Write on the four components c (missing ones are 0)
TimeWriteOf(st, c) ==
    IF st.hourOffset = None THEN c
    ELSE [c EXCEPT ![1] = (c[1] % 12) + st.hourOffset]

TimeWrite(st) == TimeWriteOf(st, st.time \o [k \in 1..(4 - Len(st.time)) |-> 0])

TimeOk(st, c) ==
    /\ st.hourOffset /= None => IsHour12((st.time \o <<0>>)[1])
    /\ \/ IsHour(c[1]) /\ IsMinute(c[2]) /\ IsSecond(c[3]) /\ IsMillisecond(c[4])
       \/ c = <<24, 0, 0, 0>>

\* TimeZoneComposer::Write: the seconds of the offset as an unsigned 32-bit
\* number, from the limbs of hour * 3600 + minute * 60; [ok] is FALSE when
\* it is above 2^31 - 1
TzSecondsOf(limbs) ==
    [ok |-> (limbs[3] % 4) < 2,
     seconds |-> limbs[1] + limbs[2] * Base + (limbs[3] % 2) * Base * Base]

TzSeconds(hour, minute) ==
    TzSecondsOf(BigMulAdd(BigOfInt(hour), 3600, minute * 60) \o <<0, 0, 0>>)

TzWrite(st) ==
    TzSeconds(IF st.hour = None THEN 0 ELSE st.hour,
              IF st.minute = None THEN 0 ELSE st.minute)

\* the instant of the written fields: a date without offset is local time
DateOfLocal(st, zone, l) ==
    IF st.sign = None THEN FromLocal(zone, l)
    ELSE TimeClip(Shift(l, 0 - st.sign * (TzWrite(st).seconds \div SecondsPerDay),
                        (0 - st.sign) * (TzWrite(st).seconds % SecondsPerDay) * 1000))

DateOfFields(st, zone, d, c) ==
    IF \/ ~IsMonth(d.month) \/ ~IsDay(d.day) \/ ~TimeOk(st, c)
       \/ (st.sign /= None /\ ~TzWrite(st).ok)
       \/ d.year > MaxYear \/ d.year < 0 - MaxYear
    THEN InvalidDate
    ELSE DateOfLocal(st, zone,
             Shift(DateAt(MakeDay(d.year, d.month - 1, d.day), 0), 0,
                   ((c[1] * 60 + c[2]) * 60 + c[3]) * 1000 + c[4]))

DateOfComposers(st, zone) ==
    IF ~st.ok \/ st.day = <<>> THEN InvalidDate
    ELSE DateOfFields(st, zone, DayWrite(st), TimeWrite(st))

\* new Date(string) in the time zone of the process
ParseDate(s, zone) == DateOfComposers(ParseTokens(Tokens(s, 1)), zone)

(***************************************************************************)
(* Regular expressions: { $regex: search, $options: 'i' }.  The pattern is *)
(* read as a RegExp pattern of the language the controller is written in   *)
(* (no unicode flag, case ignored): it is parsed into a tree, and the tree *)
(* is matched by backtracking, alternatives and repetitions tried in their *)
(* order of priority.                                                      *)
(***************************************************************************)
MaxInt == 2147483647
MaxCodeUnit == 65535

\* A node of the tree.  t is its kind; c a code unit ("char"), the
\* direction of a look-around ("look") ; neg negates a class or look-around;
\* items are the children, or the ranges <<lo, hi>> of a class; min, max
\* and greedy are those of a repetition (max = MaxInt: no limit); k is the
\* index of a capture group ("group", "backref"; 0: the group
\* captures nothing) or the number of groups to the left of a repetition, pc
\* the number of groups inside it.
Node ==
    [t |-> "empty", c |-> 0, neg |-> FALSE, items |-> <<>>, min |-> 0,
     max |-> 0, greedy |-> TRUE, k |-> 0, pc |-> 0]

CharNode(code) == [Node EXCEPT !.t = "char", !.c = code]
ClassNode(neg, ranges) == [Node EXCEPT !.t = "class", !.neg = neg, !.items = ranges]
SeqNode(items) == [Node EXCEPT !.t = "seq", !.items = items]
AltNode(items) ==
    IF Len(items) = 1 THEN items[1] ELSE [Node EXCEPT !.t = "alt", !.items = items]
GroupNode(k, body) == [Node EXCEPT !.t = "group", !.k = k, !.items = <<body>>]
LookNode(dir, neg, body) ==
    [Node EXCEPT !.t = "look", !.c = dir, !.neg = neg, !.items = <<body>>]
BackrefNode(k) == [Node EXCEPT !.t = "backref", !.k = k]
RepeatNode(body, min, max, greedy, k, pc) ==
    [Node EXCEPT !.t = "repeat", !.items = <<body>>, !.min = min, !.max = max,
                 !.greedy = greedy, !.k = k, !.pc = pc]

\* the sets of \d, \w and \s, and what is outside sorted ranges
DigitRanges == <<<<48, 57>>>>
WordRanges == <<<<48, 57>>, <<65, 90>>, <<95, 95>>, <<97, 122>>>>
SpaceRanges ==
    <<<<9, 13>>, <<32, 32>>, <<160, 160>>, <<5760, 5760>>, <<8192, 8202>>,
      <<8232, 8233>>, <<8239, 8239>>, <<8287, 8287>>, <<12288, 12288>>,
      <<65279, 65279>>>>
LineTerminators == {10, 13, 8232, 8233}

Complement(ranges) ==
    [i \in 1..(Len(ranges) + 1) |->
        <<IF i = 1 THEN 0 ELSE ranges[i - 1][2] + 1,
          IF i > Len(ranges) THEN MaxCodeUnit ELSE ranges[i][1] - 1>>]

\* the result of parsing a piece of the pattern: the node, the index i after
\* the piece and the number k of capture groups opened so far
Parsed(node, i, k) == [ok |-> TRUE, node |-> node, i |-> i, k |-> k]
SyntaxError == [ok |-> FALSE, node |-> Node, i |-> 0, k |-> 0]

\* the result of an escape or a class atom: a code unit, or a set of ranges
EscapedChar(code, i) == [ok |-> TRUE, set |-> FALSE, code |-> code, ranges |-> <<>>, i |-> i]
EscapedSet(ranges, i) == [ok |-> TRUE, set |-> TRUE, code |-> 0, ranges |-> ranges, i |-> i]
EscapeError == [ok |-> FALSE, set |-> FALSE, code |-> 0, ranges |-> <<>>, i |-> 0]

At(p, i) == IF i >= 1 /\ i <= Len(p) THEN p[i] ELSE ""

HexDigits == RadixDigits(16)
OctalDigits == RadixDigits(8)
AsciiLetters == UpperCase \cup LowerCase

\* the characters of a group name
NameStart ==
    AsciiLetters \cup {"$", "_"}
    \cup {CharOf(n) : n \in {170, 181, 186} \cup (192..214) \cup (216..246) \cup (248..255)}
NamePart == NameStart \cup Digits \cup {CharOf(183)}

\* the name that opens at index i, up to its ">"; <<>> when there is none
GroupNameAt(p, i) ==
    IF At(p, i) \in NameStart /\ At(p, SkipWhile(p, i, NamePart)) = ">"
    THEN SubSeq(p, i, SkipWhile(p, i, NamePart) - 1)
    ELSE <<>>

\* whether "(?<" at index i opens a named group (and no look-behind)
OpensNamedGroup(p, i) ==
    StartsWith(p, i, <<"(", "?", "<">>) /\ At(p, i + 3) \notin {"=", "!"}

\* The capture groups of the pattern, scanned before it is parsed: one entry
\* for each "(" that captures, holding <<TRUE, name>> for a named group and
\* <<FALSE, <<>> >> for the others.  cls says whether i is inside a class.
RECURSIVE ScanForCaptures(_, _, _)
ScanForCaptures(p, i, cls) ==
    IF i > Len(p) THEN <<>>
    ELSE IF p[i] = "\\" THEN ScanForCaptures(p, i + 2, cls)
    ELSE IF cls THEN ScanForCaptures(p, i + 1, p[i] /= "]")
    ELSE IF p[i] = "[" THEN ScanForCaptures(p, i + 1, TRUE)
    ELSE IF p[i] /= "(" THEN ScanForCaptures(p, i + 1, FALSE)
    ELSE IF OpensNamedGroup(p, i)
    THEN <<<<TRUE, GroupNameAt(p, i + 3)>>>> \o ScanForCaptures(p, i + 1, FALSE)
    ELSE IF At(p, i + 1) = "?" THEN ScanForCaptures(p, i + 1, FALSE)
    ELSE <<<<FALSE, <<>> >>>> \o ScanForCaptures(p, i + 1, FALSE)

\* what the parser knows of the whole pattern: its characters p and its
\* capture groups
PatternOf(p) == [p |-> p, groups |-> ScanForCaptures(p, 1, FALSE)]

HasNamedGroups(x) == \E g \in 1..Len(x.groups) : x.groups[g][1]

\* the indexes of the groups of that name
GroupsNamed(x, name) ==
    {g \in 1..Len(x.groups) : x.groups[g] = <<TRUE, name>>}

(***************************************************************************)
(* Escapes                                                                 *)
(***************************************************************************)
\* a legacy octal escape at the digit of index i: up to three octal digits
\* of a value below 256
OctalEscape(p, i) ==
    IF At(p, i + 1) \notin OctalDigits
    THEN EscapedChar(DigitVal(p[i]), i + 1)
    ELSE IF DigitVal(p[i]) * 8 + DigitVal(p[i + 1]) >= 32
            \/ At(p, i + 2) \notin OctalDigits
    THEN EscapedChar(DigitVal(p[i]) * 8 + DigitVal(p[i + 1]), i + 2)
    ELSE EscapedChar((DigitVal(p[i]) * 8 + DigitVal(p[i + 1])) * 8
                     + DigitVal(p[i + 2]), i + 3)

\* the code unit of n hexadecimal digits at index i, or the letter of the
\* escape itself when they are not all there
HexEscape(p, i, n) ==
    IF i + n - 1 <= Len(p) /\ \A j \in i..(i + n - 1) : p[j] \in HexDigits
    THEN EscapedChar(BigToInt(DigitsBig(<<>>, p, i, i + n - 1, 16), 1), i + n)
    ELSE EscapedChar(Code(p[i - 1]), i)

\* \c and a letter is a control character (in a class a digit or "_" will
\* do); any other \c is a backslash, and the c is read again
ControlEscape(p, i, cls) ==
    IF At(p, i + 1) \in AsciiLetters
       \/ (cls /\ At(p, i + 1) \in Digits \cup {"_"})
    THEN EscapedChar(Code(p[i + 1]) % 32, i + 2)
    ELSE EscapedChar(92, i)

\* the escape whose letter is at index i <= Len(p), backreferences, \b, \B
\* and \k apart; cls says whether it stands in a class
CharacterEscape(p, i, cls) ==
    CASE p[i] = "d" -> EscapedSet(DigitRanges, i + 1)
      [] p[i] = "D" -> EscapedSet(Complement(DigitRanges), i + 1)
      [] p[i] = "w" -> EscapedSet(WordRanges, i + 1)
      [] p[i] = "W" -> EscapedSet(Complement(WordRanges), i + 1)
      [] p[i] = "s" -> EscapedSet(SpaceRanges, i + 1)
      [] p[i] = "S" -> EscapedSet(Complement(SpaceRanges), i + 1)
      [] p[i] = "f" -> EscapedChar(12, i + 1)
      [] p[i] = "n" -> EscapedChar(10, i + 1)
      [] p[i] = "r" -> EscapedChar(13, i + 1)
      [] p[i] = "t" -> EscapedChar(9, i + 1)
      [] p[i] = "v" -> EscapedChar(11, i + 1)
      [] p[i] = "c" -> ControlEscape(p, i, cls)
      [] p[i] = "x" -> HexEscape(p, i + 1, 2)
      [] p[i] = "u" -> HexEscape(p, i + 1, 4)
      [] p[i] \in OctalDigits -> OctalEscape(p, i)
      [] OTHER -> EscapedChar(Code(p[i]), i + 1)

(***************************************************************************)
(* Classes                                                                 *)
(***************************************************************************)
\* the atom of a class at index i <= Len(p)
ClassAtom(x, i) ==
    IF x.p[i] /= "\\" THEN EscapedChar(Code(x.p[i]), i + 1)
    ELSE IF i = Len(x.p) THEN EscapeError
    ELSE IF x.p[i + 1] = "b" THEN EscapedChar(8, i + 2)
    ELSE IF x.p[i + 1] = "k" /\ HasNamedGroups(x) THEN EscapeError
    ELSE CharacterEscape(x.p, i + 1, TRUE)

AtomRanges(a) == IF a.set THEN a.ranges ELSE <<<<a.code, a.code>>>>

\* the atom a, then "-", then the atom b: a range, unless one of them is a
\* set, and then the three stand for themselves
ClassRange(a, b) ==
    IF ~b.ok \/ (~a.set /\ ~b.set /\ a.code > b.code)
    THEN [ok |-> FALSE, ranges |-> <<>>, i |-> 0]
    ELSE [ok |-> TRUE, i |-> b.i,
          ranges |-> IF a.set \/ b.set
                     THEN AtomRanges(a) \o <<<<45, 45>>>> \o AtomRanges(b)
                     ELSE <<<<a.code, b.code>>>>]

\* the atom a and what follows it in the class
ClassItem(x, a) ==
    IF ~a.ok THEN [ok |-> FALSE, ranges |-> <<>>, i |-> 0]
    ELSE IF At(x.p, a.i) = "-" /\ a.i + 1 <= Len(x.p) /\ x.p[a.i + 1] /= "]"
    THEN ClassRange(a, ClassAtom(x, a.i + 1))
    ELSE [ok |-> TRUE, ranges |-> AtomRanges(a), i |-> a.i]

\* the class whose items start at index i, up to its "]"
RECURSIVE ClassItems(_, _, _, _, _)
ClassItemsNext(x, k, neg, ranges, item) ==
    IF ~item.ok THEN SyntaxError
    ELSE ClassItems(x, item.i, k, neg, ranges \o item.ranges)

ClassItems(x, i, k, neg, ranges) ==
    IF i > Len(x.p) THEN SyntaxError
    ELSE IF x.p[i] = "]" THEN Parsed(ClassNode(neg, ranges), i + 1, k)
    ELSE ClassItemsNext(x, k, neg, ranges, ClassItem(x, ClassAtom(x, i)))

\* the class that opens at index i
ParseClass(x, i, k) ==
    IF At(x.p, i + 1) = "^" THEN ClassItems(x, i + 2, k, TRUE, <<>>)
    ELSE ClassItems(x, i + 1, k, FALSE, <<>>)

(***************************************************************************)
(* Quantifiers                                                             *)
(***************************************************************************)
\* the number of the digits p[i..j] in a {} quantifier: MaxInt when above
BraceNumberOf(b) ==
    IF BigCmp(b, BigOfInt(MaxInt)) > 0 THEN MaxInt ELSE BigToInt(b, 1)

BraceNumber(p, i, j) == BraceNumberOf(BigTrim(DigitsBig(<<>>, p, i, j, 10)))

NoBrace == [ok |-> FALSE, min |-> 0, max |-> 0, i |-> 0]

\* {n}, {n,} or {n,m} at index i: e is the index after the digits of n and
\* f the index after the digits that follow the comma
BraceAt(p, i, e, f) ==
    IF e = i + 1 THEN NoBrace
    ELSE IF At(p, e) = "}"
    THEN [ok |-> TRUE, min |-> BraceNumber(p, i + 1, e - 1),
          max |-> BraceNumber(p, i + 1, e - 1), i |-> e + 1]
    ELSE IF At(p, e) /= "," \/ At(p, f) /= "}" THEN NoBrace
    ELSE [ok |-> TRUE, min |-> BraceNumber(p, i + 1, e - 1),
          max |-> IF f = e + 1 THEN MaxInt ELSE BraceNumber(p, e + 1, f - 1),
          i |-> f + 1]

Brace(p, i) ==
    BraceAt(p, i, SkipWhile(p, i + 1, Digits),
            SkipWhile(p, SkipWhile(p, i + 1, Digits) + 1, Digits))

\* the quantifier at index i: *, +, ?, or one in braces
QuantifierAt(p, i) ==
    CASE At(p, i) = "*" -> [ok |-> TRUE, min |-> 0, max |-> MaxInt, i |-> i + 1]
      [] At(p, i) = "+" -> [ok |-> TRUE, min |-> 1, max |-> MaxInt, i |-> i + 1]
      [] At(p, i) = "?" -> [ok |-> TRUE, min |-> 0, max |-> 1, i |-> i + 1]
      [] At(p, i) = "{" -> Brace(p, i)
      [] OTHER -> NoBrace

\* the atom a with the quantifier q that follows it, if any; k0 is the
\* number of groups opened before the atom
QuantifiedBy(x, a, k0, q) ==
    IF ~q.ok THEN a
    ELSE IF q.max < q.min
            \/ (a.node.t = "look" /\ a.node.c = 0 - 1)
    THEN SyntaxError
    ELSE Parsed(RepeatNode(a.node, q.min, q.max, At(x.p, q.i) /= "?", k0,
                           a.k - k0),
                IF At(x.p, q.i) = "?" THEN q.i + 1 ELSE q.i, a.k)

Quantified(x, a, k0) ==
    IF ~a.ok THEN SyntaxError ELSE QuantifiedBy(x, a, k0, QuantifierAt(x.p, a.i))

(***************************************************************************)
(* Terms, alternatives and groups                                          *)
(***************************************************************************)
AtomOf(e, k) ==
    IF ~e.ok THEN SyntaxError
    ELSE IF e.set THEN Parsed(ClassNode(FALSE, e.ranges), e.i, k)
    ELSE Parsed(CharNode(e.code), e.i, k)

\* \k<name> at index i: the group of that name
NamedBackref(x, i, k) ==
    IF At(x.p, i + 2) = "<" /\ GroupsNamed(x, GroupNameAt(x.p, i + 3)) /= {}
    THEN Parsed(BackrefNode(Only(GroupsNamed(x, GroupNameAt(x.p, i + 3)))),
                i + 4 + Len(GroupNameAt(x.p, i + 3)), k)
    ELSE SyntaxError

\* \1 to \9...: a backreference when the pattern has that many groups,
\* else a legacy octal escape, or the digit 8 or 9 itself; e is the index
\* after the digits
DecimalEscape(x, i, k, e) ==
    IF BraceNumber(x.p, i + 1, e - 1) <= Len(x.groups)
    THEN Parsed(BackrefNode(BraceNumber(x.p, i + 1, e - 1)), e, k)
    ELSE IF x.p[i + 1] \in {"8", "9"}
    THEN Parsed(CharNode(Code(x.p[i + 1])), i + 2, k)
    ELSE AtomOf(OctalEscape(x.p, i + 1), k)

\* the escape at index i, where the backslash is; \b and \B take no
\* quantifier
AtomEscape(x, i, k) ==
    IF i = Len(x.p) THEN SyntaxError
    ELSE IF x.p[i + 1] = "b" THEN Parsed([Node EXCEPT !.t = "boundary"], i + 2, k)
    ELSE IF x.p[i + 1] = "B"
    THEN Parsed([Node EXCEPT !.t = "boundary", !.neg = TRUE], i + 2, k)
    ELSE IF x.p[i + 1] \in Digits \ {"0"}
    THEN Quantified(x, DecimalEscape(x, i, k, SkipWhile(x.p, i + 1, Digits)), k)
    ELSE IF x.p[i + 1] = "k" /\ HasNamedGroups(x)
    THEN Quantified(x, NamedBackref(x, i, k), k)
    ELSE Quantified(x, AtomOf(CharacterEscape(x.p, i + 1, FALSE), k), k)

RECURSIVE ParseDisjunction(_, _, _, _)
RECURSIVE ParseAlternative(_, _, _, _)

\* the group whose body is parsed as b closes with ")"; wrap makes its node
GroupOf(x, b, kind, k) ==
    IF ~b.ok \/ At(x.p, b.i) /= ")" THEN SyntaxError
    ELSE Parsed(CASE kind = "capture" -> GroupNode(k, b.node)
                  [] kind = "plain" -> GroupNode(0, b.node)
                  [] kind = "ahead" -> LookNode(1, FALSE, b.node)
                  [] kind = "notahead" -> LookNode(1, TRUE, b.node)
                  [] kind = "behind" -> LookNode(0 - 1, FALSE, b.node)
                  [] kind = "notbehind" -> LookNode(0 - 1, TRUE, b.node),
                b.i + 1, b.k)

\* the group that opens at index i; a name has to be a name, and of one
\* group only
ParseGroup(x, i, k) ==
    IF At(x.p, i + 1) /= "?"
    THEN GroupOf(x, ParseDisjunction(x, i + 1, k + 1, <<>>), "capture", k + 1)
    ELSE IF At(x.p, i + 2) = ":"
    THEN GroupOf(x, ParseDisjunction(x, i + 3, k, <<>>), "plain", 0)
    ELSE IF At(x.p, i + 2) = "="
    THEN GroupOf(x, ParseDisjunction(x, i + 3, k, <<>>), "ahead", 0)
    ELSE IF At(x.p, i + 2) = "!"
    THEN GroupOf(x, ParseDisjunction(x, i + 3, k, <<>>), "notahead", 0)
    ELSE IF At(x.p, i + 2) /= "<" THEN SyntaxError
    ELSE IF At(x.p, i + 3) = "="
    THEN GroupOf(x, ParseDisjunction(x, i + 4, k, <<>>), "behind", 0)
    ELSE IF At(x.p, i + 3) = "!"
    THEN GroupOf(x, ParseDisjunction(x, i + 4, k, <<>>), "notbehind", 0)
    ELSE IF GroupNameAt(x.p, i + 3) = <<>>
            \/ Cardinality(GroupsNamed(x, GroupNameAt(x.p, i + 3))) /= 1
    THEN SyntaxError
    ELSE GroupOf(x, ParseDisjunction(x, i + 4 + Len(GroupNameAt(x.p, i + 3)),
                                     k + 1, <<>>),
                 "capture", k + 1)

\* the term at index i <= Len(p)
ParseTerm(x, i, k) ==
    CASE x.p[i] = "^" -> Parsed([Node EXCEPT !.t = "bol"], i + 1, k)
      [] x.p[i] = "$" -> Parsed([Node EXCEPT !.t = "eol"], i + 1, k)
      [] x.p[i] = "(" -> Quantified(x, ParseGroup(x, i, k), k)
      [] x.p[i] \in {"*", "+", "?"} -> SyntaxError
      [] x.p[i] = "{" ->
            IF Brace(x.p, i).ok THEN SyntaxError
            ELSE Quantified(x, Parsed(CharNode(123), i + 1, k), k)
      [] x.p[i] = "." ->
            Quantified(x, Parsed([Node EXCEPT !.t = "any"], i + 1, k), k)
      [] x.p[i] = "[" -> Quantified(x, ParseClass(x, i, k), k)
      [] x.p[i] = "\\" -> AtomEscape(x, i, k)
      [] OTHER -> Quantified(x, Parsed(CharNode(Code(x.p[i])), i + 1, k), k)

\* the terms from index i up to "|", ")" or the end
ParseAlternativeNext(x, terms, t) ==
    IF ~t.ok THEN SyntaxError
    ELSE ParseAlternative(x, t.i, t.k, Append(terms, t.node))

ParseAlternative(x, i, k, terms) ==
    IF i > Len(x.p) \/ x.p[i] \in {"|", ")"} THEN Parsed(SeqNode(terms), i, k)
    ELSE ParseAlternativeNext(x, terms, ParseTerm(x, i, k))

\* the alternatives from index i up to ")" or the end
ParseDisjunctionNext(x, alts, a) ==
    IF ~a.ok THEN SyntaxError
    ELSE IF At(x.p, a.i) = "|"
    THEN ParseDisjunction(x, a.i + 1, a.k, Append(alts, a.node))
    ELSE Parsed(AltNode(Append(alts, a.node)), a.i, a.k)

ParseDisjunction(x, i, k, alts) ==
    ParseDisjunctionNext(x, alts, ParseAlternative(x, i, k, <<>>))

\* the whole pattern: nothing may be left, a ")" that closes nothing is
\* left
ParsePatternOf(x, r) ==
    IF r.ok /\ r.i > Len(x.p) THEN r ELSE SyntaxError

ParsePattern(x) == ParsePatternOf(x, ParseDisjunction(x, 1, 0, <<>>))

\* new RegExp(pattern, "i") does not throw
RegexValid(pattern) == ParsePattern(PatternOf(pattern)).ok

(***************************************************************************)
(* Matching                                                                *)
(***************************************************************************)
\* Canonicalize: the upper case of the code unit, when it is one code unit
\* and not an ASCII one for a unit that is not
Canonicalize(n) ==
    IF (n >= 97 /\ n <= 122) \/ (n >= 224 /\ n <= 254 /\ n /= 247) THEN n - 32
    ELSE IF n = 255 THEN 376
    ELSE IF n = 181 \/ n = 956 THEN 924
    ELSE n

\* the code units that canonicalize as n does
Variants(n) ==
    {Canonicalize(n), n}
    \cup (IF (Canonicalize(n) >= 65 /\ Canonicalize(n) <= 90)
             \/ (Canonicalize(n) >= 192 /\ Canonicalize(n) <= 222
                 /\ Canonicalize(n) /= 215)
          THEN {Canonicalize(n) + 32} ELSE {})
    \cup (IF Canonicalize(n) = 376 THEN {255} ELSE {})
    \cup (IF Canonicalize(n) = 924 THEN {181, 956} ELSE {})

ClassHas(ranges, n) ==
    \E r \in 1..Len(ranges) :
        \E a \in Variants(n) : ranges[r][1] <= a /\ a <= ranges[r][2]

\* whether the node takes the code unit n
Takes(node, n) ==
    CASE node.t = "char" -> Canonicalize(node.c) = Canonicalize(n)
      [] node.t = "any" -> n \notin LineTerminators
      [] node.t = "class" -> ClassHas(node.items, n) /= node.neg

\* The state of a match: the position pos (the number of characters to the
\* left of it) and the captures, <<start, end>> or <<>> for each group.
State(pos, caps) == [pos |-> pos, caps |-> caps]

\* the sequences ss[lo..hi] one after the other
RECURSIVE Flatten(_, _, _)
Flatten(ss, lo, hi) ==
    IF lo > hi THEN <<>>
    ELSE IF lo = hi THEN ss[lo]
    ELSE Flatten(ss, lo, (lo + hi) \div 2) \o Flatten(ss, ((lo + hi) \div 2) + 1, hi)

IsWordChar(s, i) ==
    i >= 1 /\ i <= Len(s)
    /\ \E r \in 1..Len(WordRanges) :
          WordRanges[r][1] <= Code(s[i]) /\ Code(s[i]) <= WordRanges[r][2]

\* the captured text cap is at position pos of s, in direction d
BackrefMatches(s, cap, pos, d) ==
    /\ IF d = 1 THEN pos + (cap[2] - cap[1]) <= Len(s)
       ELSE pos - (cap[2] - cap[1]) >= 0
    /\ \A j \in 1..(cap[2] - cap[1]) :
          Canonicalize(Code(s[cap[1] + j]))
          = Canonicalize(Code(s[(IF d = 1 THEN pos ELSE pos - (cap[2] - cap[1])) + j]))

\* the captures with those of the groups k+1..k+pc undefined
ResetCaptures(caps, k, pc) ==
    [g \in 1..Len(caps) |-> IF g > k /\ g <= k + pc THEN <<>> ELSE caps[g]]

\* States(s, n, d, st): the states the node n can leave the match in when
\* it starts in state st, in the order the matcher tries them.  d is the
\* direction: 1 forward, -1 backward (inside a look-behind).
RECURSIVE States(_, _, _, _)

\* the node from each of the states sts
StatesEach(s, n, d, sts) ==
    Flatten([j \in 1..Len(sts) |-> States(s, n, d, sts[j])], 1, Len(sts))

\* the items from the i-th on, one after the other in direction d
RECURSIVE SeqStates(_, _, _, _, _)
SeqStates(s, items, i, d, sts) ==
    IF i > Len(items) \/ sts = <<>> THEN sts
    ELSE SeqStates(s, items, i + 1, d,
             StatesEach(s, items[IF d = 1 THEN i ELSE Len(items) + 1 - i], d, sts))

\* a repetition with min and max iterations left: an iteration that moved
\* (or one that min still asks for) and the rest, or no iteration
RECURSIVE RepeatStates(_, _, _, _, _, _)
RepeatEach(s, n, d, min, max, sts) ==
    Flatten([j \in 1..Len(sts) |-> RepeatStates(s, n, d, min, max, sts[j])],
            1, Len(sts))

RepeatAgain(s, n, d, min, max, st) ==
    RepeatEach(s, n, d, IF min = 0 THEN 0 ELSE min - 1,
               IF max = MaxInt THEN MaxInt ELSE max - 1,
               SelectSeq(States(s, n.items[1], d,
                                State(st.pos, ResetCaptures(st.caps, n.k, n.pc))),
                         LAMBDA r : ~(min = 0 /\ r.pos = st.pos)))

RepeatStates(s, n, d, min, max, st) ==
    IF max = 0 THEN <<st>>
    ELSE IF min > 0 THEN RepeatAgain(s, n, d, min, max, st)
    ELSE IF n.greedy THEN RepeatAgain(s, n, d, min, max, st) \o <<st>>
    ELSE <<st>> \o RepeatAgain(s, n, d, min, max, st)

\* the states of a group, with what it captured
Captured(n, d, st, sts) ==
    IF n.k = 0 THEN sts
    ELSE [j \in 1..Len(sts) |->
             State(sts[j].pos,
                   [sts[j].caps EXCEPT ![n.k] =
                       IF d = 1 THEN <<st.pos, sts[j].pos>>
                       ELSE <<sts[j].pos, st.pos>>])]

\* a look-around keeps the position, and the captures of the first way its
\* body matched
Looked(n, st, sts) ==
    IF n.neg THEN (IF sts = <<>> THEN <<st>> ELSE <<>>)
    ELSE IF sts = <<>> THEN <<>>
    ELSE <<State(st.pos, sts[1].caps)>>

States(s, n, d, st) ==
    CASE n.t \in {"char", "any", "class"} ->
            IF (IF d = 1 THEN st.pos < Len(s) ELSE st.pos > 0)
               /\ Takes(n, Code(s[IF d = 1 THEN st.pos + 1 ELSE st.pos]))
            THEN <<State(st.pos + d, st.caps)>>
            ELSE <<>>
      [] n.t = "empty" -> <<st>>
      [] n.t = "seq" -> SeqStates(s, n.items, 1, d, <<st>>)
      [] n.t = "alt" ->
            Flatten([j \in 1..Len(n.items) |-> States(s, n.items[j], d, st)],
                    1, Len(n.items))
      [] n.t = "group" -> Captured(n, d, st, States(s, n.items[1], d, st))
      [] n.t = "repeat" -> RepeatStates(s, n, d, n.min, n.max, st)
      [] n.t = "look" -> Looked(n, st, States(s, n.items[1], n.c, st))
      [] n.t = "backref" ->
            IF st.caps[n.k] = <<>> THEN <<st>>
            ELSE IF BackrefMatches(s, st.caps[n.k], st.pos, d)
            THEN <<State(st.pos + d * (st.caps[n.k][2] - st.caps[n.k][1]),
                         st.caps)>>
            ELSE <<>>
      [] n.t = "bol" -> IF st.pos = 0 THEN <<st>> ELSE <<>>
      [] n.t = "eol" -> IF st.pos = Len(s) THEN <<st>> ELSE <<>>
      [] n.t = "boundary" ->
            IF (IsWordChar(s, st.pos) /= IsWordChar(s, st.pos + 1)) /= n.neg
            THEN <<st>> ELSE <<>>

\* the tree matches somewhere in s
MatchesSomewhere(s, r, ngroups) ==
    \E pos \in 0..Len(s) :
        States(s, r.node, 1, State(pos, [g \in 1..ngroups |-> <<>>])) /= <<>>

RegexTestOf(x, s) == MatchesSomewhere(s, ParsePattern(x), Len(x.groups))

\* new RegExp(pattern, "i").test(s), for a pattern that is valid
RegexTest(pattern, s) == RegexTestOf(PatternOf(pattern), s)

(***************************************************************************)
(* JavaScript values: what a destructured query parameter or the price of  *)
(* a record of the seed source can be                                      *)
(***************************************************************************)
JsNumber(n) == [t |-> "number", n |-> n, s |-> <<>>]
JsString(s) == [t |-> "string", n |-> NaN, s |-> s]
JsUndefined == [t |-> "undefined", n |-> NaN, s |-> <<>>]
JsNull == [t |-> "null", n |-> Zero(FALSE), s |-> <<>>]
JsBoolean(b) ==
    [t |-> "boolean", n |-> IF b THEN N(1) ELSE Zero(FALSE), s |-> <<>>]

\* Number.prototype.toString of an integer below 2^30 in magnitude
NumberToString(n) ==
    IF n.neg /\ n.m /= <<>> THEN <<"-">> \o IntToStr(0 - IntOf(n))
    ELSE IntToStr(IntOf(n))

\* String(v)
StringOf(v) ==
    CASE v.t = "string" -> v.s
      [] v.t = "number" -> NumberToString(v.n)
      [] v.t = "undefined" ->
            <<"u", "n", "d", "e", "f", "i", "n", "e", "d">>
      [] v.t = "null" -> <<"n", "u", "l", "l">>
      [] v.t = "boolean" ->
            IF v.n = N(1) THEN <<"t", "r", "u", "e">>
            ELSE <<"f", "a", "l", "s", "e">>

\* Number(v), and the conversion the operators -, *, / and isNaN apply
ToNumber(v) == IF v.t = "string" THEN ToNumberStr(v.s) ELSE v.n

(***************************************************************************)
(* Records, the collection and its queries                                 *)
(***************************************************************************)
\* parseFloat(transaction.price): the argument is converted to a string
\* first.  The string of a number reads back as the same number, -0 as 0.
ParseFloat(price) ==
    IF price.t = "number"
    THEN IF price.n = Zero(TRUE) THEN Zero(FALSE) ELSE price.n
    ELSE ParseFloatStr(StringOf(price))

\* isNaN(price) ? 0 : price
PriceOrZero(price) == IF IsNaN(price) THEN Zero(FALSE) ELSE price

\* the callback of response.data.map: the record with its price coerced
TransformRecord(transaction) ==
    [transaction EXCEPT !.price = PriceOrZero(ParseFloat(transaction.price))]

\* response.data.map(...)
MapTransform(data) == [i \in 1..Len(data) |-> TransformRecord(data[i])]

\* a delete that removes nothing
DeleteManyNothing(st) == st

\* Transaction.deleteMany({})
DeleteMany(st) == <<>>

\* a document as the store keeps it: the fields given, plus the identifier
\* the store assigns at insertion
WithId(doc, id) ==
    [f \in (DOMAIN doc) \cup {"oid"} |-> IF f = "oid" THEN id ELSE doc[f]]

\* an insert that loses the last document
InsertManyButLast(st, docs, next) ==
    st \o [i \in 1..(Len(docs) - 1) |-> WithId(docs[i], next + i - 1)]

\* Transaction.insertMany(docs): appended in order, identifiers from next on
InsertMany(st, docs, next) ==
    st \o [i \in 1..Len(docs) |-> WithId(docs[i], next + i - 1)]

\* the filter of the three aggregators: the month window only
WindowQuery(startDate, endDate) ==
    [gte |-> startDate, lt |-> endDate, or |-> <<>>, hasOr |-> FALSE]

RegexClause(field, pattern) ==
    [kind |-> "regex", field |-> field, pattern |-> pattern, eq |-> NaN]
PriceClause(value) ==
    [kind |-> "eq", field |-> "price", pattern |-> <<>>, eq |-> value]

\* query.$or: the two regex clauses, with the price clause pushed when
\* isNaN(search) is false; n is Number(search)
OrClauses(search, n) ==
    IF ~IsNaN(n)
    THEN <<RegexClause("title", search), RegexClause("description", search),
           PriceClause(n)>>
    ELSE <<RegexClause("title", search), RegexClause("description", search)>>

\* the filter of getTransactions: the window and the $or
SearchQuery(startDate, endDate, search) ==
    [gte |-> startDate, lt |-> endDate, hasOr |-> TRUE,
     or |-> OrClauses(StringOf(search), ToNumber(search))]

\* the filter is cast before it is sent: an Invalid Date bound is a cast
\* error and the query never reaches the store
CastFails(q) == ~q.gte.valid \/ ~q.lt.valid

\* the store rejects a $regex whose pattern does not compile
StoreRejects(q) ==
    \E i \in 1..Len(q.or) :
        q.or[i].kind = "regex" /\ ~RegexValid(q.or[i].pattern)

\* the await of the query rejects
QueryFails(q) == CastFails(q) \/ StoreRejects(q)

\* one clause of $or on a document: $regex with $options "i" on a string
\* field, equality of numbers on price
ClauseMatches(doc, c) ==
    IF c.kind = "regex"
    THEN RegexTest(c.pattern,
                   IF c.field = "title" THEN doc.title ELSE doc.description)
    ELSE JsEq(doc.price, c.eq)

Matches(doc, q) ==
    /\ ~Before(doc.dateOfSale, q.gte)
    /\ Before(doc.dateOfSale, q.lt)
    /\ (q.hasOr => \E i \in 1..Len(q.or) : ClauseMatches(doc, q.or[i]))

\* Transaction.find(query): the matching documents in the store's order
Find(st, q) == SelectSeq(st, LAMBDA doc : Matches(doc, q))

\* Transaction.countDocuments(query)
CountDocuments(st, q) == Len(Find(st, q))

\* (page - 1) * perPage, the argument of .skip
SkipOf(page, perPage) ==
    JsMul(JsSub(ToNumber(page), N(1)), ToNumber(perPage))

\* the argument of .limit as a number: a string is cast, the empty string
\* to no limit
LimitOf(perPage) == ToNumber(perPage)

\* a number that has no fraction
IsWhole(a) == a.k = "fin" /\ (a.m = <<>> \/ a.e >= 0)

\* .limit(perPage) throws when the string is not a number
LimitCastFails(perPage) == IsNaN(LimitOf(perPage))

\* the store rejects a skip that is negative or not whole and a limit that
\* is not whole
PagingRejected(skip, limit) ==
    \/ ~IsWhole(skip)
    \/ (skip.neg /\ skip.m /= <<>>)
    \/ ~IsWhole(limit)

\* the count a whole number stands for in a skip or a limit: its
\* magnitude, capped above every length a result can have
MaxCount == 1073741823
CountOf(a) ==
    IF ~IsSmallInt(a) THEN MaxCount
    ELSE IF a.neg THEN 0 - IntOf(a) ELSE IntOf(a)

\* a limit that lets one document too many through
SkipLimitOffByOne(docs, n, k) ==
    SubSeq(docs, n + 1,
           IF k = 0 THEN Len(docs) ELSE Min(n + k + 1, Len(docs)))

\* .skip(n).limit(k) on a result; a limit of 0 is no limit
SkipLimit(docs, n, k) ==
    SubSeq(docs, n + 1, IF k = 0 THEN Len(docs) ELSE Min(n + k, Len(docs)))

\* the page of a result: .skip((page - 1) * perPage).limit(perPage)
PageOf(docs, page, perPage) ==
    SkipLimit(docs, CountOf(SkipOf(page, perPage)), CountOf(LimitOf(perPage)))

(***************************************************************************)
(* Request parameters and responses                                        *)
(***************************************************************************)
\* a query parameter: present with a string value, or absent (undefined)
Some(v) == [present |-> TRUE, v |-> v]
Absent == [present |-> FALSE, v |-> <<>>]

\* destructuring default: the default replaces an absent parameter only
Default(param, d) == IF param.present THEN JsString(param.v) ELSE d

DefaultPage == JsNumber(N(1))
DefaultPerPage == JsNumber(N(10))
DefaultSearch == JsString(<<>>)
ReferenceYear == <<"2", "0", "2", "1">>

Ok(body) == [status |-> 200, body |-> body]
Err(message) == [status |-> 500, body |-> [message |-> message]]
NoResponse == [status |-> 0, body |-> [message |-> "none"]]

\* JSON.stringify of a number: NaN, Infinity and -Infinity are written as
\* null, -0 as 0
JsonNull == [null |-> TRUE]
JsonNumber(n) ==
    IF n.k /= "fin" THEN JsonNull
    ELSE IF n.m = <<>> THEN Zero(FALSE)
    ELSE n

\* JSON.stringify of a parameter echoed in a body
JsonValue(v) == IF v.t = "number" THEN [v EXCEPT !.n = JsonNumber(v.n)] ELSE v

\* a document in a body
JsonDoc(doc) == [doc EXCEPT !.price = JsonNumber(doc.price)]
JsonDocs(docs) == [i \in 1..Len(docs) |-> JsonDoc(docs[i])]

\* the month check every read handler starts with:
\* !month || isNaN(parseInt(month)) || parseInt(month) < 1 || parseInt(month) > 12
\* MonthOutOfRange is the check on n = parseInt(month).
MonthOutOfRange(n) == IsNaN(n) \/ JsLt(n, N(1)) \/ JsGt(n, N(12))

MonthInvalid(month) ==
    \/ ~month.present
    \/ month.v = <<>>
    \/ MonthOutOfRange(ParseInt(month.v))

\* `2021-${month}-01` after month.padStart(2, '0')
DateString(month) ==
    ReferenceYear \o <<"-">> \o PadStart(month, 2) \o <<"-", "0", "1">>

\* startDate = new Date(...);
\* endDate = new Date(startDate); endDate.setMonth(endDate.getMonth() + 1)
WindowFrom(startDate, zone) ==
    [startDate |-> startDate,
     endDate |-> SetMonth(startDate, JsAdd(GetMonth(startDate, zone), N(1)),
                          zone)]

Window(month, zone) == WindowFrom(ParseDate(DateString(month), zone), zone)

(***************************************************************************)
(* The aggregations                                                        *)
(***************************************************************************)
\* transactions.reduce((acc, t) => acc + t.price, 0) over the first i
RECURSIVE SumPrice(_, _)
SumPrice(transactions, i) ==
    IF i = 0 THEN Zero(FALSE)
    ELSE JsAdd(SumPrice(transactions, i - 1), transactions[i].price)

\* body of getStatistics
StatisticsBody(transactions) ==
    [totalSaleAmount |-> JsonNumber(SumPrice(transactions, Len(transactions))),
     totalSoldItems |-> Len(SelectSeq(transactions, LAMBDA t : t.sold)),
     totalNotSoldItems |-> Len(SelectSeq(transactions, LAMBDA t : ~t.sold))]

BucketNames ==
    <<"0-100", "101-200", "201-300", "301-400", "401-500",
      "501-600", "601-700", "701-800", "801-900", "901-above">>

\* the bounds the if / else-if chain compares the price with, in its order
BucketBounds == <<100, 200, 300, 400, 500, 600, 700, 800, 900>>

\* the chain with < in place of <=
RECURSIVE BucketFromStrict(_, _)
BucketFromStrict(price, b) ==
    IF b > Len(BucketBounds) THEN b
    ELSE IF JsLt(price, N(BucketBounds[b])) THEN b
    ELSE BucketFromStrict(price, b + 1)

BucketOfStrict(price) == BucketFromStrict(price, 1)

\* the chain from its b-th test on: the first test price <= bound that
\* holds picks the bucket, the final else the last one
RECURSIVE BucketFrom(_, _)
BucketFrom(price, b) ==
    IF b > Len(BucketBounds) THEN b
    ELSE IF JsLe(price, N(BucketBounds[b])) THEN b
    ELSE BucketFrom(price, b + 1)

\* the if / else-if chain of the forEach callback: index of the bucket
BucketOf(price) == BucketFrom(price, 1)

\* body of getBarChartData: priceRanges after the forEach
BarChartBody(transactions) ==
    [k \in {BucketNames[b] : b \in 1..Len(BucketNames)} |->
        Cardinality({i \in 1..Len(transactions) :
                        BucketNames[BucketOf(transactions[i].price)] = k})]

\* the functions every object literal inherits from Object.prototype
ObjectPrototypeKeys ==
    {"constructor", "__defineGetter__", "__defineSetter__", "hasOwnProperty",
     "__lookupGetter__", "__lookupSetter__", "isPrototypeOf",
     "propertyIsEnumerable", "toString", "valueOf", "toLocaleString"}

\* the inherited accessor: its getter returns the prototype, its setter
\* ignores a value that is neither an object nor null
ProtoKey == "__proto__"

\* categories[key]: the own property, else the inherited one, else undefined
Undefined == [kind |-> "undefined", num |-> NaN]
Inherited == [kind |-> "function", num |-> NaN]
Prototype == [kind |-> "object", num |-> NaN]
ObjGet(obj, key) ==
    IF key \in DOMAIN obj THEN [kind |-> "number", num |-> obj[key]]
    ELSE IF key = ProtoKey THEN Prototype
    ELSE IF key \in ObjectPrototypeKeys THEN Inherited
    ELSE Undefined

\* categories[key] = value for a number: sets the own property, except
\* that the setter of __proto__ takes the value and drops it
ObjPut(obj, key, value) ==
    IF key = ProtoKey THEN obj
    ELSE [k \in (DOMAIN obj) \cup {key} |-> IF k = key THEN value ELSE obj[k]]

\* !value: undefined, 0 and NaN are falsy, a function, an object and the
\* other numbers truthy
Falsy(value) ==
    \/ value.kind = "undefined"
    \/ value.kind = "number" /\ (IsNaN(value.num) \/ value.num.m = <<>>)

\* value + 1 of ++: undefined, a function and the prototype convert to NaN
Incremented(value) ==
    IF value.kind = "number" THEN JsAdd(value.num, N(1)) ELSE NaN

EmptyObject == [k \in {} |-> Zero(FALSE)]

\* categories[key]++
TallyIncrement(categories, key) ==
    ObjPut(categories, key, Incremented(ObjGet(categories, key)))

\* the forEach callback:
\* if (!categories[key]) categories[key] = 0; categories[key]++
TallyStep(categories, key) ==
    TallyIncrement(IF Falsy(ObjGet(categories, key))
                   THEN ObjPut(categories, key, Zero(FALSE))
                   ELSE categories,
                   key)

\* categories after the first i transactions of the forEach
RECURSIVE Tally(_, _)
Tally(transactions, i) ==
    IF i = 0 THEN EmptyObject
    ELSE TallyStep(Tally(transactions, i - 1), transactions[i].category)

\* res.json(categories)
PieChartJson(categories) ==
    [k \in DOMAIN categories |-> JsonNumber(categories[k])]

\* body of getPieChartData
PieChartBody(transactions) ==
    PieChartJson(Tally(transactions, Len(transactions)))

(***************************************************************************)
(* The handlers of the read endpoints, one operator per await              *)
(***************************************************************************)
\* getTransactions up to the await of Transaction.find: validation, window,
\* query, and the page found.  calls counts the queries sent to the store.
\* TransactionsPage is the handler from the query built on.
Found(failed, calls, query, transactions) ==
    [failed |-> failed, calls |-> calls, query |-> query,
     transactions |-> transactions]

TransactionsPage(query, page, perPage, st) ==
    IF CastFails(query) \/ LimitCastFails(perPage)
    THEN Found(TRUE, 0, query, <<>>)
    ELSE IF StoreRejects(query)
            \/ PagingRejected(SkipOf(page, perPage), LimitOf(perPage))
    THEN Found(TRUE, 1, query, <<>>)
    ELSE Found(FALSE, 1, query, PageOf(Find(st, query), page, perPage))

TransactionsQuery(w, search) == SearchQuery(w.startDate, w.endDate, search)

TransactionsFind(month, search, page, perPage, st, zone) ==
    IF MonthInvalid(month)
    THEN Found(TRUE, 0, WindowQuery(InvalidDate, InvalidDate), <<>>)
    ELSE TransactionsPage(
             TransactionsQuery(Window(month.v, zone),
                               Default(search, DefaultSearch)),
             Default(page, DefaultPage), Default(perPage, DefaultPerPage), st)

\* Math.ceil(total / perPage)
TotalPages(total, perPage) == Ceil(JsDiv(N(total), ToNumber(perPage)))

\* the body of the response of getTransactions, as res.json writes it
TransactionsBody(transactions, total, page, perPage) ==
    [transactions |-> JsonDocs(transactions),
     total |-> total,
     page |-> JsonValue(page),
     perPage |-> JsonValue(perPage),
     totalPages |-> JsonNumber(TotalPages(total, perPage))]

\* getTransactions from the await of Transaction.countDocuments to res.json
TransactionsCount(query, transactions, page, perPage, st) ==
    Ok(TransactionsBody(transactions, CountDocuments(st, query),
                        Default(page, DefaultPage),
                        Default(perPage, DefaultPerPage)))

ErrorMessage(kind) ==
    CASE kind = "transactions" -> "Error fetching transactions"
      [] kind = "statistics" -> "Error fetching statistics"
      [] kind = "bar-chart" -> "Error fetching bar chart data"
      [] kind = "pie-chart" -> "Error fetching pie chart data"
      [] kind = "combined" -> "Error fetching combined data"

\* the filter of the month window w
WindowFilter(w) == WindowQuery(w.startDate, w.endDate)

\* the filter a single-query handler builds from a month that passed the check
MonthQuery(month, zone) == WindowFilter(Window(month.v, zone))

\* the body a single-query handler computes from the documents found
AggregateBody(ep, transactions) ==
    CASE ep = "statistics" -> StatisticsBody(transactions)
      [] ep = "bar-chart" -> BarChartBody(transactions)
      [] ep = "pie-chart" -> PieChartBody(transactions)

\* a single-query handler from its query on
AggregateFound(ep, query, st) ==
    IF QueryFails(query) THEN Err(ErrorMessage(ep))
    ELSE Ok(AggregateBody(ep, Find(st, query)))

\* getStatistics, getBarChartData, getPieChartData: validation, window,
\* Transaction.find on the window, body
AggregateResponse(ep, month, st, zone) ==
    IF MonthInvalid(month) THEN Err(ErrorMessage(ep))
    ELSE AggregateFound(ep, MonthQuery(month, zone), st)

StatisticsResponse(month, st, zone) ==
    AggregateResponse("statistics", month, st, zone)
BarChartResponse(month, st, zone) ==
    AggregateResponse("bar-chart", month, st, zone)
PieChartResponse(month, st, zone) ==
    AggregateResponse("pie-chart", month, st, zone)

\* the locals startDate and endDate of a read handler: set once the month
\* has passed the check, undefined (Invalid Date here) before
HandlerWindow(month, zone) ==
    IF MonthInvalid(month)
    THEN [startDate |-> InvalidDate, endDate |-> InvalidDate]
    ELSE Window(month.v, zone)

\* queries a single-query handler has sent to the store when it responds,
\* w being its window
WindowCalls(w) == IF ~w.startDate.valid \/ ~w.endDate.valid THEN 0 ELSE 1

(***************************************************************************)
(* The sub-calls of getCombinedData: axios writes params into the query    *)
(* string of the URL, the server parses it back into req.query             *)
(***************************************************************************)
\* characters encodeURIComponent leaves as they are
Unescaped ==
    Digits \cup UpperCase \cup LowerCase
    \cup {"-", "_", ".", "!", "~", "*", "'", "(", ")"}

\* characters axios puts back after encodeURIComponent
Restored == {":", "$", ",", "[", "]"}

HexDigit(n) == Ascii32[IF n < 10 THEN 17 + n ELSE 24 + n]

\* the bytes of the UTF-8 form of a code unit that is no surrogate
Utf8(code) ==
    IF code < 128 THEN <<code>>
    ELSE IF code < 2048 THEN <<192 + (code \div 64), 128 + (code % 64)>>
    ELSE <<224 + (code \div 4096), 128 + ((code \div 64) % 64),
           128 + (code % 64)>>

RECURSIVE PercentBytes(_, _)
PercentBytes(bytes, i) ==
    IF i > Len(bytes) THEN <<>>
    ELSE <<"%", HexDigit(bytes[i] \div 16), HexDigit(bytes[i] % 16)>>
         \o PercentBytes(bytes, i + 1)

\* one character of a parameter value in the URL: a space as "+"
EncodeChar(c) ==
    IF c = " " THEN <<"+">>
    ELSE IF c \in Unescaped \cup Restored THEN <<c>>
    ELSE PercentBytes(Utf8(Code(c)), 1)

RECURSIVE Encode(_, _)
Encode(s, i) ==
    IF i > Len(s) THEN <<>> ELSE EncodeChar(s[i]) \o Encode(s, i + 1)

\* the byte written as %XY at index i
ByteAt(q, i) == 16 * DigitVal(q[i + 1]) + DigitVal(q[i + 2])

\* the query parser of the server: "+" is a space, %XY sequences are the
\* bytes of UTF-8
RECURSIVE Decode(_, _)
Decode(q, i) ==
    IF i > Len(q) THEN <<>>
    ELSE IF q[i] = "+" THEN <<" ">> \o Decode(q, i + 1)
    ELSE IF q[i] /= "%" THEN <<q[i]>> \o Decode(q, i + 1)
    ELSE IF ByteAt(q, i) < 128
    THEN <<CharOf(ByteAt(q, i))>> \o Decode(q, i + 3)
    ELSE IF ByteAt(q, i) < 224
    THEN <<CharOf((ByteAt(q, i) - 192) * 64 + (ByteAt(q, i + 3) - 128))>>
         \o Decode(q, i + 6)
    ELSE <<CharOf((ByteAt(q, i) - 224) * 4096
                  + (ByteAt(q, i + 3) - 128) * 64
                  + (ByteAt(q, i + 6) - 128))>>
         \o Decode(q, i + 9)

\* the parameter a sub-call's handler finds in req.query for the value the
\* caller put in params: always a string
Received(v) == Some(Decode(Encode(StringOf(v), 1), 1))

Request(ep, month, search, page, perPage) ==
    [ep |-> ep, month |-> month, search |-> search,
     page |-> page, perPage |-> perPage]

\* req.query of the sub-call GET /api/transactions of a getCombinedData
\* whose req.query is r: { params: { month, search, page, perPage } } after
\* the defaults and the padStart
TransactionsSubCall(r) ==
    Request("transactions",
            Received(JsString(PadStart(r.month.v, 2))),
            Received(Default(r.search, DefaultSearch)),
            Received(Default(r.page, DefaultPage)),
            Received(Default(r.perPage, DefaultPerPage)))

\* req.query of the sub-calls with { params: { month } }
MonthSubCall(ep, month) ==
    Request(ep, Received(JsString(month)), Absent, Absent, Absent)

\* the outcome of getTransactions on req.query q up to its first await
FindFor(q, st, zone) ==
    TransactionsFind(q.month, q.search, q.page, q.perPage, st, zone)

\* getCombinedData on a store that does not change during the request: the
\* four sub-calls in order, any of them answered with status 500 makes the
\* whole request fail
CombinedOf(q, f, statistics, barChart, pieChart, st) ==
    IF \/ f.failed
       \/ statistics.status /= 200
       \/ barChart.status /= 200
       \/ pieChart.status /= 200
    THEN Err(ErrorMessage("combined"))
    ELSE Ok([transactions |->
                 TransactionsCount(f.query, f.transactions,
                                   q.page, q.perPage, st).body,
             statistics |-> statistics.body,
             barChart |-> barChart.body,
             pieChart |-> pieChart.body])

CombinedSubCalls(q, m, st, zone) ==
    CombinedOf(q, FindFor(q, st, zone),
               AggregateResponse("statistics", m, st, zone),
               AggregateResponse("bar-chart", m, st, zone),
               AggregateResponse("pie-chart", m, st, zone), st)

CombinedResponse(r, st, zone) ==
    IF MonthInvalid(r.month) THEN Err(ErrorMessage("combined"))
    ELSE CombinedSubCalls(TransactionsSubCall(r),
                          Received(JsString(PadStart(r.month.v, 2))),
                          st, zone)

(***************************************************************************)
(* Inputs: seed datasets, time zones and requests                          *)
(***************************************************************************)
Raw(title, description, price, category, sold, dateOfSale) ==
    [title |-> title, description |-> description, price |-> price,
     category |-> category, sold |-> sold, dateOfSale |-> dateOfSale]

\* response.data of the seed source: an array of raw records, or a
\* top-level value that is not an array
ArrayData(items) == [array |-> TRUE, items |-> items]
Malformed == [array |-> FALSE, items |-> <<>>]

DatasetA ==
    << Raw(<<"a", "b">>, <<"c">>, JsString(<<"4", "2", ".", "5">>), "men",
           TRUE, UTC(2021, 3, 15, 12, 0)),
       Raw(<<"B", "5">>, <<"a">>, JsString(<<"a", "b", "c">>), "women",
           FALSE, UTC(2021, 3, 20, 0, 0)) >>

\* one record without a price
DatasetB ==
    << Raw(<<"c", "a">>, <<"b">>, JsUndefined, "women",
           FALSE, UTC(2021, 3, 10, 0, 0)) >>

\* prices with an exponent and without a finite value
DatasetC ==
    << Raw(<<"d">>, <<"e">>, JsString(<<"1", "e", "3">>), "men",
           TRUE, UTC(2021, 3, 12, 0, 0)),
       Raw(<<"D">>, <<"e">>, JsString(<<"I", "n", "f", "i", "n", "i", "t", "y">>), "women",
           FALSE, UTC(2021, 3, 13, 0, 0)) >>

\* five records of March 2021, on both edges of the month and of the buckets
DatasetPage ==
    << Raw(<<"a", "b">>, <<"c">>, JsNumber(N(100)), "men",
           TRUE, UTC(2021, 3, 1, 6, 0)),
       Raw(<<"A", "b">>, <<"5">>, JsNumber(Dyadic(201, 0 - 1)), "women",
           FALSE, UTC(2021, 3, 5, 0, 0)),
       Raw(<<"c">>, <<"b">>, JsNumber(N(101)), "toString",
           TRUE, UTC(2021, 3, 10, 0, 0)),
       Raw(<<"c">>, <<"c">>, JsNumber(N(5)), "men",
           FALSE, UTC(2021, 3, 20, 12, 0)),
       Raw(<<"5">>, <<"c">>, JsNumber(N(901)), "women",
           TRUE, UTC(2021, 3, 28, 12, 0)) >>

\* records on the edges of months and years, prices that are numerals in
\* part
DatasetEdge ==
    << Raw(<<"a">>, <<"c">>, JsString(<<"-", "5">>), "men",
           TRUE, UTC(2021, 4, 1, 0, 0)),
       Raw(<<"b">>, <<"c">>, JsNumber(N(900)), "men",
           FALSE, UTC(2021, 12, 31, 10, 0)),
       Raw(<<"c">>, <<"a">>, JsString(<<"0", "x", "1", "0">>), "women",
           TRUE, UTC(2021, 1, 1, 0, 0)),
       Raw(<<"c">>, <<"c">>, JsString(<<"1", "2", "a">>), "women",
           FALSE, UTC(2022, 3, 15, 0, 0)),
       Raw(<<"c">>, <<"c">>, JsString(<<" ", "7">>), "men",
           TRUE, UTC(2021, 2, 28, 20, 0)),
       Raw(<<"z">>, <<"c">>, JsNull, "men",
           TRUE, UTC(2021, 3, 31, 23, 0)) >>

\* categories that are names of properties of Object.prototype
DatasetKeys ==
    << Raw(<<"a", "(", "b", ")">>, <<"c">>, JsNumber(N(1000)), "__proto__",
           TRUE, UTC(2021, 3, 2, 0, 0)),
       Raw(<<"a">>, <<"c">>, JsBoolean(TRUE), "men",
           FALSE, UTC(2021, 3, 3, 0, 0)),
       Raw(<<"b">>, <<"c">>, JsNumber(N(16)), "__proto__",
           TRUE, UTC(2021, 3, 4, 0, 0)),
       Raw(<<"c">>, <<"c">>, JsNumber(Zero(TRUE)), "__defineGetter__",
           TRUE, UTC(2021, 3, 5, 0, 0)),
       Raw(<<"c">>, <<"c">>, JsNumber(N(1)), "valueOf",
           FALSE, UTC(2021, 3, 6, 0, 0)),
       Raw(<<"c">>, <<"c">>, JsNumber(N(1)), "valueOf",
           FALSE, UTC(2021, 3, 7, 0, 0)) >>

\* prices that have no exact binary form
DatasetFloat ==
    << Raw(<<"a">>, <<"b">>, JsString(<<"0", ".", "1">>), "men",
           TRUE, UTC(2021, 3, 2, 0, 0)),
       Raw(<<"a">>, <<"b">>, JsString(<<"0", ".", "2">>), "men",
           FALSE, UTC(2021, 3, 3, 0, 0)),
       Raw(<<"a">>, <<"b">>, JsString(<<"1", ".", "1">>), "men",
           TRUE, UTC(2021, 4, 2, 0, 0)),
       Raw(<<"a">>, <<"b">>, JsString(<<"2", ".", "2">>), "men",
           FALSE, UTC(2021, 4, 3, 0, 0)),
       Raw(<<"a">>, <<"b">>, JsString(<<"I", "n", "f", "i", "n", "i", "t", "y">>), "men",
           FALSE, UTC(2021, 5, 3, 0, 0)),
       Raw(<<"a">>, <<"b">>, JsString(<<"-", "I", "n", "f", "i", "n", "i", "t", "y">>), "men",
           FALSE, UTC(2021, 6, 3, 0, 0)),
       Raw(<<"a">>, <<"b">>, JsString(<<"I", "n", "f", "i", "n", "i", "t", "y">>), "men",
           FALSE, UTC(2021, 6, 4, 0, 0)) >>

\* prices that start with a numeral and go on, or are numerals of another
\* radix or with white space around
DatasetPartial ==
    << Raw(<<"a">>, <<"b">>, JsString(<<"1", "2", "a">>), "men",
           TRUE, UTC(2021, 3, 2, 0, 0)),
       Raw(<<"b">>, <<"b">>, JsString(<<"0", "x", "1", "0">>), "men",
           FALSE, UTC(2021, 3, 3, 0, 0)),
       Raw(<<"c">>, <<"b">>, JsString(<<" ", "7", " ">>), "men",
           TRUE, UTC(2021, 3, 4, 0, 0)) >>

\* prices that are not strings
DatasetTyped ==
    << Raw(<<"a">>, <<"b">>, JsNumber(Dyadic(201, 0 - 1)), "men",
           TRUE, UTC(2021, 3, 2, 0, 0)),
       Raw(<<"b">>, <<"b">>, JsNull, "men",
           FALSE, UTC(2021, 3, 3, 0, 0)),
       Raw(<<"c">>, <<"b">>, JsBoolean(TRUE), "men",
           TRUE, UTC(2021, 3, 4, 0, 0)) >>

\* what the seed source can answer while reseeds race with reads
SeedResponses ==
    {ArrayData(DatasetA), ArrayData(DatasetB), Malformed}

\* what the seed source can answer when only reseeds run
LoadResponses ==
    SeedResponses
    \cup {ArrayData(DatasetC), ArrayData(DatasetPartial),
          ArrayData(DatasetTyped)}

\* the datasets behind the stores the read endpoints are exercised on
ReadDatasets ==
    {<<>>, DatasetA, DatasetB, DatasetC, DatasetPage, DatasetEdge,
     DatasetKeys, DatasetFloat}

\* the datasets with records on the edges of the months, read on a host in
\* each of the time zones; the others are read on a host in UTC
ZonedDatasets == {DatasetPage, DatasetEdge}

\* time zones of the host: UTC, America/New_York, Europe/Berlin and
\* Asia/Kolkata
ZoneUTC == Zone(0, "none")
ZoneNewYork == Zone(0 - 300, "us")
ZoneBerlin == Zone(60, "eu")
ZoneKolkata == Zone(330, "none")
Zones == {ZoneUTC, ZoneNewYork, ZoneBerlin, ZoneKolkata}

MaxPage == 4
MaxPerPage == 2
MaxId == 3

Endpoints == {"transactions", "statistics", "bar-chart", "pie-chart", "combined"}

\* the numerals of 1 to 12 and values the month check has to deal with
MonthInputs ==
    {Absent} \cup {Some(IntToStr(m)) : m \in 1..12}
    \cup {Some(<<>>), Some(<<"a">>), Some(<<"1", "a">>), Some(<<"0">>), Some(<<"1", "3">>),
          Some(<<"0", "3">>), Some(<<"0", "x", "1">>), Some(<<"0", "0", "3">>), Some(<<" ", "3">>),
          Some(<<"0", "1", "2">>), Some(<<"\t", "3">>), Some(<<"-", "1">>), Some(<<"3", ".", "5">>),
          Some(<<"1", "e", "1">>), Some(<<"+", "3">>), Some(<<"3", " ", "p", "m">>), Some(<<"1", "1", "z">>),
          Some(<<"0", "x", "C">>)}

SearchInputs ==
    {Absent, Some(<<>>), Some(<<"a">>), Some(<<"B">>), Some(<<".">>), Some(<<"5">>),
     Some(<<"(">>), Some(<<"(", ")">>), Some(<<"a", "|", "b">>), Some(<<"[">>), Some(<<"*">>),
     Some(<<"\\", "(">>), Some(<<"d">>), Some(<<"1", "e", "3">>), Some(<<"0", "x", "1", "0">>),
     Some(<<"I", "n", "f", "i", "n", "i", "t", "y">>), Some(<<" ">>), Some(<<"1", "0", "0">>), Some(<<"^", "c", "$">>),
     Some(<<"[", "a", "-", "b", "]", "+", "5">>), Some(<<"1", "0", "0", ".", "5">>)}

PageInputs ==
    {Absent} \cup {Some(IntToStr(n)) : n \in 1..MaxPage}
    \cup {Some(<<"0">>), Some(<<"-", "1">>), Some(<<"1", ".", "5">>), Some(<<"a", "b", "c">>),
          Some(<<"1", "e", "1">>), Some(<<>>)}

PerPageInputs ==
    {Absent} \cup {Some(IntToStr(n)) : n \in 1..MaxPerPage}
    \cup {Some(<<"0">>), Some(<<"-", "1">>), Some(<<"-", "2">>), Some(<<"1", ".", "5">>),
          Some(<<"a", "b", "c">>), Some(<<" ", "2">>)}

\* getStatistics, getBarChartData and getPieChartData read month only; the
\* other two are exercised on every month with the other parameters
\* absent, and on March with every search and every page
ReadRequests ==
    {Request(ep, m, Absent, Absent, Absent) :
        ep \in Endpoints, m \in MonthInputs}
    \cup
    {Request(ep, Some(<<"3">>), s, pg, pp) :
        ep \in {"transactions", "combined"}, s \in SearchInputs,
        pg \in {Absent, Some(<<"2">>)}, pp \in {Absent, Some(<<"1">>)}}
    \cup
    {Request(ep, Some(<<"0", "3">>), s, pg, pp) :
        ep \in {"transactions", "combined"}, s \in {Absent, Some(<<>>)},
        pg \in PageInputs, pp \in PerPageInputs}

\* the requests raced against reseeds
RaceRequests ==
    {Request(ep, Some(<<"3">>), Absent, Absent, Some(<<"1">>)) :
        ep \in {"transactions", "statistics"}}

(***************************************************************************)
(* State                                                                   *)
(***************************************************************************)
VARIABLES
    store,     \* the documents of the collection, in insertion order
    nextId,    \* the identifier the store gives the next inserted document
    tz,        \* the time zone of the host
    seed,      \* per initializeDatabase request: position and locals
    lastSeed,  \* history: the documents of the last undisturbed reseed
    rpc,       \* position of the read request in its handler
    req,       \* req.query of the read request
    loc,       \* locals of the read handler
    resp,      \* the response sent to the read request
    calls      \* queries and sub-calls the read handler has sent

vars == <<store, nextId, tz, seed, lastSeed, rpc, req, loc, resp, calls>>
seedVars == <<store, nextId, seed, lastSeed>>
readVars == <<rpc, req, loc, resp, calls>>

\* the initializeDatabase requests that can be in flight together
Seeders == {"s1", "s2"}

\* pc, data, transactions and resp are the handler's position and locals;
\* the rest is history: ops, the store operations the run has completed;
\* fail, the step that failed; overlapped, whether another reseed was in
\* flight during the run; prior, the identifiers the store held when the
\* run's deleteMany ran
SeedIdle ==
    [pc |-> "idle", data |-> Malformed, transactions |-> <<>>,
     resp |-> NoResponse, ops |-> {}, fail |-> "none", overlapped |-> FALSE,
     prior |-> {}]

NoBody == [none |-> TRUE]

NoRequest == Request("none", Absent, Absent, Absent, Absent)

\* gap is history: whether the handler's first query ran between the
\* deleteMany and the insertMany of a reseed; sub is req.query of the
\* first sub-call of getCombinedData
NoLoc ==
    [startDate |-> InvalidDate, endDate |-> InvalidDate, gap |-> FALSE,
     month |-> <<>>,
     sub |-> NoRequest,
     query |-> WindowQuery(InvalidDate, InvalidDate),
     transactions |-> <<>>,
     transactionsResponse |-> NoBody,
     statisticsResponse |-> NoBody,
     barChartResponse |-> NoBody]

ReadIdle ==
    /\ rpc = "idle"
    /\ req = NoRequest
    /\ loc = NoLoc
    /\ resp = NoResponse
    /\ calls = 0

\* history of the reseeds: any, whether one has succeeded; docs, the
\* documents the last successful one inserted; clean, whether that reseed ran
\* without another one in flight and no reseed has touched the store since
NoSeed == [any |-> FALSE, clean |-> FALSE, docs |-> <<>>]

\* the reseed does no date arithmetic: the reads raced against it run on a
\* host in UTC
Init ==
    /\ store = <<>>
    /\ nextId = 1
    /\ tz = ZoneUTC
    /\ seed = [p \in Seeders |-> SeedIdle]
    /\ lastSeed = NoSeed
    /\ ReadIdle

\* the store as one completed initializeDatabase over the dataset leaves it
Seeded(dataset) == InsertMany(DeleteMany(<<>>), MapTransform(dataset), 1)

\* the read endpoints on a seeded store, no reseed in flight
InitRead ==
    /\ \E d \in ReadDatasets :
          /\ store = Seeded(d)
          /\ nextId = Len(d) + 1
          /\ lastSeed = [any |-> TRUE, clean |-> TRUE, docs |-> Seeded(d)]
    /\ tz \in Zones
    /\ store \in {Seeded(d) : d \in ZonedDatasets} \/ tz = ZoneUTC
    /\ seed = [p \in Seeders |-> SeedIdle]
    /\ ReadIdle

(***************************************************************************)
(* initializeDatabase, one action per await and outcome                    *)
(***************************************************************************)
InProgress(p) == seed[p].pc \in {"delete", "insert"}

\* some reseed has deleted and not yet inserted
InGap == \E p \in Seeders : seed[p].pc = "insert"

\* identifiers the reseeds in flight will still take
RECURSIVE Reserved(_)
Reserved(ps) ==
    IF ps = {} THEN 0
    ELSE LET p == CHOOSE x \in ps : TRUE
         IN  (IF InProgress(p) THEN Len(seed[p].data.items) ELSE 0)
             + Reserved(ps \ {p})

SeedError == Err("Error initializing database")
SeedSuccess == Ok([message |-> "Database initialized with seed data"])

\* await axios.get(...) resolves with response.data = data
InitFetchOk(p, data) ==
    /\ seed[p].pc = "idle"
    /\ nextId + Reserved(Seeders) + Len(data.items) - 1 <= MaxId
    /\ seed' = [q \in Seeders |->
                  IF q = p
                  THEN [seed[q] EXCEPT !.pc = "delete", !.data = data,
                           !.overlapped = \E o \in Seeders \ {p} : InProgress(o)]
                  ELSE IF InProgress(q)
                       THEN [seed[q] EXCEPT !.overlapped = TRUE]
                       ELSE seed[q]]
    /\ UNCHANGED <<store, nextId, lastSeed, tz>>
    /\ UNCHANGED readVars

\* await axios.get(...) rejects: the catch block answers
InitFetchFail(p) ==
    /\ seed[p].pc = "idle"
    /\ seed' = [seed EXCEPT ![p].pc = "done", ![p].resp = SeedError,
                            ![p].fail = "fetch"]
    /\ UNCHANGED <<store, nextId, lastSeed, tz>>
    /\ UNCHANGED readVars

\* await Transaction.deleteMany({}) resolves, then response.data.map(...)
\* runs: it throws when response.data is not an array
InitDeleteOk(p) ==
    /\ seed[p].pc = "delete"
    /\ store' = DeleteMany(store)
    /\ lastSeed' = [lastSeed EXCEPT !.clean = FALSE]
    /\ IF seed[p].data.array
       THEN seed' = [seed EXCEPT ![p].pc = "insert",
                        ![p].ops = {"delete"},
                        ![p].prior = {store[i].oid : i \in 1..Len(store)},
                        ![p].transactions = MapTransform(seed[p].data.items)]
       ELSE seed' = [seed EXCEPT ![p] = [SeedIdle EXCEPT !.pc = "done",
                        !.ops = {"delete"},
                        !.prior = {store[i].oid : i \in 1..Len(store)},
                        !.resp = SeedError,
                        !.fail = "malformed"]]
    /\ UNCHANGED <<nextId, tz>>
    /\ UNCHANGED readVars

\* await Transaction.deleteMany({}) rejects: the store did or did not
\* carry the delete out before the failure
InitDeleteFail(p) ==
    /\ seed[p].pc = "delete"
    /\ store' \in {store, DeleteMany(store)}
    /\ lastSeed' = [lastSeed EXCEPT !.clean = FALSE]
    /\ seed' = [seed EXCEPT ![p] = [SeedIdle EXCEPT !.pc = "done",
                               !.resp = SeedError, !.fail = "delete"]]
    /\ UNCHANGED <<nextId, tz>>
    /\ UNCHANGED readVars

\* await Transaction.insertMany(transactions) resolves
InitInsertOk(p) ==
    /\ seed[p].pc = "insert"
    /\ store' = InsertMany(store, seed[p].transactions, nextId)
    /\ nextId' = nextId + Len(seed[p].transactions)
    /\ lastSeed' = [any |-> TRUE, clean |-> ~seed[p].overlapped,
                    docs |-> [i \in 1..Len(seed[p].transactions) |->
                                WithId(seed[p].transactions[i], nextId + i - 1)]]
    /\ seed' = [seed EXCEPT ![p] = [SeedIdle EXCEPT !.pc = "done",
                               !.resp = SeedSuccess,
                               !.ops = {"delete", "insert"},
                               !.prior = seed[p].prior]]
    /\ UNCHANGED tz
    /\ UNCHANGED readVars

\* await Transaction.insertMany(transactions) rejects after the first k
\* documents went in
InitInsertFail(p, k) ==
    /\ seed[p].pc = "insert"
    /\ k < Len(seed[p].transactions)
    /\ store' = InsertMany(store, SubSeq(seed[p].transactions, 1, k), nextId)
    /\ nextId' = nextId + k
    /\ lastSeed' = [lastSeed EXCEPT !.clean = FALSE]
    /\ seed' = [seed EXCEPT ![p] = [SeedIdle EXCEPT !.pc = "done",
                               !.resp = SeedError, !.ops = {"delete"},
                               !.fail = "insert",
                               !.prior = seed[p].prior]]
    /\ UNCHANGED tz
    /\ UNCHANGED readVars

\* the response is delivered; the slot takes the next request
InitFinish(p) ==
    /\ seed[p].pc = "done"
    /\ seed' = [seed EXCEPT ![p] = SeedIdle]
    /\ UNCHANGED <<store, nextId, lastSeed, tz>>
    /\ UNCHANGED readVars

(***************************************************************************)
(* The read handlers, one action per await                                 *)
(***************************************************************************)
\* the locals of a handler once it has built the window w
WindowLoc(w, gap) ==
    [NoLoc EXCEPT !.startDate = w.startDate, !.endDate = w.endDate,
                  !.gap = gap]

\* getTransactions from the request to the await of Transaction.find; f is
\* the outcome of the handler up to that await
getTransactions(r) ==
    /\ rpc = "idle"
    /\ r.ep = "transactions"
    /\ \E f \in {FindFor(r, store, tz)} :
           /\ req' = r
           /\ calls' = f.calls
           /\ loc' = [NoLoc EXCEPT !.startDate = f.query.gte,
                                   !.endDate = f.query.lt,
                                   !.gap = InGap,
                                   !.query = f.query,
                                   !.transactions = f.transactions]
           /\ IF f.failed
              THEN /\ resp' = Err(ErrorMessage("transactions"))
                   /\ rpc' = "done"
              ELSE /\ resp' = NoResponse
                   /\ rpc' = "count"
    /\ UNCHANGED <<tz>>
    /\ UNCHANGED seedVars

\* getTransactions from the await of Transaction.countDocuments to res.json
getTransactionsCount ==
    /\ rpc = "count"
    /\ resp' = TransactionsCount(loc.query, loc.transactions,
                                 req.page, req.perPage, store)
    /\ calls' = calls + 1
    /\ rpc' = "done"
    /\ UNCHANGED <<req, loc, tz>>
    /\ UNCHANGED seedVars

\* a single-query handler from the request to its response; w is the window
\* it built
Aggregate(r, w) ==
    /\ loc' = WindowLoc(w, InGap)
    /\ req' = r
    /\ calls' = IF MonthInvalid(r.month) THEN 0 ELSE WindowCalls(w)
    /\ resp' = IF MonthInvalid(r.month) THEN Err(ErrorMessage(r.ep))
               ELSE AggregateFound(r.ep, WindowFilter(w), store)
    /\ rpc' = "done"
    /\ UNCHANGED <<tz>>
    /\ UNCHANGED seedVars

getStatistics(r) ==
    /\ rpc = "idle"
    /\ r.ep = "statistics"
    /\ \E w \in {HandlerWindow(r.month, tz)} : Aggregate(r, w)

getBarChartData(r) ==
    /\ rpc = "idle"
    /\ r.ep = "bar-chart"
    /\ \E w \in {HandlerWindow(r.month, tz)} : Aggregate(r, w)

getPieChartData(r) ==
    /\ rpc = "idle"
    /\ r.ep = "pie-chart"
    /\ \E w \in {HandlerWindow(r.month, tz)} : Aggregate(r, w)

\* getCombinedData from the request to the first sub-call, GET
\* /api/transactions with { month, search, page, perPage }, whose handler
\* runs to its await of Transaction.find.  A sub-call answered with status
\* 500 makes axios.get reject, and the catch block answers.
getCombinedDataFind(r, q, f) ==
    /\ calls' = 1
    /\ loc' = [NoLoc EXCEPT !.month = PadStart(r.month.v, 2),
                            !.gap = InGap,
                            !.sub = q,
                            !.query = f.query,
                            !.transactions = f.transactions]
    /\ IF f.failed
       THEN /\ resp' = Err(ErrorMessage("combined"))
            /\ rpc' = "done"
       ELSE /\ resp' = NoResponse
            /\ rpc' = "combinedCount"

getCombinedData(r) ==
    /\ rpc = "idle"
    /\ r.ep = "combined"
    /\ req' = r
    /\ IF MonthInvalid(r.month)
       THEN /\ resp' = Err(ErrorMessage("combined"))
            /\ calls' = 0
            /\ loc' = NoLoc
            /\ rpc' = "done"
       ELSE \E q \in {TransactionsSubCall(r)} :
                \E f \in {FindFor(q, store, tz)} :
                    getCombinedDataFind(r, q, f)
    /\ UNCHANGED <<tz>>
    /\ UNCHANGED seedVars

\* the /api/transactions sub-call answers; GET /api/statistics is issued
getCombinedDataCount ==
    /\ rpc = "combinedCount"
    /\ loc' = [loc EXCEPT !.transactionsResponse =
                  TransactionsCount(loc.query, loc.transactions,
                                    loc.sub.page, loc.sub.perPage, store).body]
    /\ calls' = calls + 1
    /\ rpc' = "combinedStatistics"
    /\ UNCHANGED <<req, resp, tz>>
    /\ UNCHANGED seedVars

\* the sub-call of an aggregator answers with sub: a status 500 ends the
\* request, a body is kept in field and the next sub-call is issued
getCombinedDataNext(sub, field, next) ==
    IF sub.status /= 200
    THEN /\ resp' = Err(ErrorMessage("combined"))
         /\ rpc' = "done"
         /\ UNCHANGED <<loc, calls>>
    ELSE /\ loc' = [loc EXCEPT ![field] = sub.body]
         /\ calls' = calls + 1
         /\ rpc' = next
         /\ UNCHANGED resp

\* the /api/statistics sub-call answers; GET /api/bar-chart is issued
getCombinedDataStatistics ==
    /\ rpc = "combinedStatistics"
    /\ \E sub \in {AggregateResponse("statistics",
                       MonthSubCall("statistics", loc.month).month,
                       store, tz)} :
           getCombinedDataNext(sub, "statisticsResponse", "combinedBarChart")
    /\ UNCHANGED <<req, tz>>
    /\ UNCHANGED seedVars

\* the /api/bar-chart sub-call answers; GET /api/pie-chart is issued
getCombinedDataBarChart ==
    /\ rpc = "combinedBarChart"
    /\ \E sub \in {AggregateResponse("bar-chart",
                       MonthSubCall("bar-chart", loc.month).month,
                       store, tz)} :
           getCombinedDataNext(sub, "barChartResponse", "combinedPieChart")
    /\ UNCHANGED <<req, tz>>
    /\ UNCHANGED seedVars

\* the /api/pie-chart sub-call answers; combinedData is sent
getCombinedDataPieChart ==
    /\ rpc = "combinedPieChart"
    /\ \E sub \in {AggregateResponse("pie-chart",
                       MonthSubCall("pie-chart", loc.month).month,
                       store, tz)} :
           IF sub.status /= 200
           THEN resp' = Err(ErrorMessage("combined"))
           ELSE resp' = Ok([transactions |-> loc.transactionsResponse,
                            statistics |-> loc.statisticsResponse,
                            barChart |-> loc.barChartResponse,
                            pieChart |-> sub.body])
    /\ rpc' = "done"
    /\ UNCHANGED <<req, loc, calls, tz>>
    /\ UNCHANGED seedVars

\* the response is delivered; the next request can come
ReadFinish ==
    /\ rpc = "done"
    /\ rpc' = "idle"
    /\ req' = NoRequest
    /\ loc' = NoLoc
    /\ resp' = NoResponse
    /\ calls' = 0
    /\ UNCHANGED <<tz>>
    /\ UNCHANGED seedVars

(***************************************************************************)
(* Specifications                                                          *)
(***************************************************************************)
ReadContinue ==
    \/ getTransactionsCount
    \/ getCombinedDataCount
    \/ getCombinedDataStatistics
    \/ getCombinedDataBarChart
    \/ getCombinedDataPieChart
    \/ ReadFinish

\* a request out of the set arrives and its handler runs to its first await
ReadStart(requests) ==
    \/ rpc = "idle" /\ \E r \in requests : getTransactions(r)
    \/ rpc = "idle" /\ \E r \in requests : getStatistics(r)
    \/ rpc = "idle" /\ \E r \in requests : getBarChartData(r)
    \/ rpc = "idle" /\ \E r \in requests : getPieChartData(r)
    \/ rpc = "idle" /\ \E r \in requests : getCombinedData(r)

initializeDatabase(p, responses) ==
    \/ \E data \in responses : InitFetchOk(p, data)
    \/ InitFetchFail(p)
    \/ InitDeleteOk(p)
    \/ InitDeleteFail(p)
    \/ InitInsertOk(p)
    \/ \E k \in 0..MaxId : InitInsertFail(p, k)
    \/ InitFinish(p)

\* the read endpoints on a seeded store, no reseed in flight
Next ==
    \/ ReadStart(ReadRequests)
    \/ ReadContinue

Spec == InitRead /\ [][Next]_vars

\* reseeds racing with each other and with getStatistics and getTransactions
NextSeed ==
    \/ \E p \in Seeders : initializeDatabase(p, SeedResponses)
    \/ rpc = "idle" /\ \E r \in RaceRequests : getTransactions(r)
    \/ rpc = "idle" /\ \E r \in RaceRequests : getStatistics(r)
    \/ getTransactionsCount
    \/ ReadFinish

SpecSeed == Init /\ [][NextSeed]_vars

\* reseeds racing with each other, over every answer of the seed source
NextLoad == \E p \in Seeders : initializeDatabase(p, LoadResponses)

SpecLoad == Init /\ [][NextLoad]_vars

(***************************************************************************)
(* Vocabulary of the properties                                            *)
(***************************************************************************)
Done(ep) == rpc = "done" /\ req.ep = ep

Succeeded(ep) == Done(ep) /\ resp.status = 200

\* the month value is the decimal numeral of an integer in 1..12
MonthInRange(month) ==
    /\ month.present
    /\ month.v /= <<>>
    /\ Len(month.v) <= MaxSignificantDigits
    /\ \A i \in 1..Len(month.v) : month.v[i] \in Digits
    /\ DigitsValue(month.v, 1, Len(month.v)) \in 1..12

MonthNumber(month) == DigitsValue(month.v, 1, Len(month.v))

\* the month value is absent, is not a number, or is an integer outside
\* 1..12
MonthOutside(n) == IsNaN(n) \/ (IsWhole(n) /\ (JsLt(n, N(1)) \/ JsGt(n, N(12))))

MonthUnusable(month) == ~month.present \/ MonthOutside(ToNumberStr(month.v))

\* text contains sub as a substring, letters compared without regard to case
ContainsIgnoreCase(text, sub) ==
    \E i \in 0..(Len(text) - Len(sub)) :
        \A j \in 1..Len(sub) : Lower(text[i + j]) = Lower(sub[j])

\* the documents of st inside the window
InWindow(st, startDate, endDate) ==
    SelectSeq(st, LAMBDA d : /\ ~Before(d.dateOfSale, startDate)
                             /\ Before(d.dateOfSale, endDate))

RECURSIVE SumOver(_, _)
SumOver(f, keys) ==
    IF keys = {} THEN 0
    ELSE LET k == CHOOSE x \in keys : TRUE
         IN  f[k] + SumOver(f, keys \ {k})

BucketKeys == {BucketNames[b] : b \in 1..Len(BucketNames)}

\* the parameters of the request after the defaults
PageValue == Default(req.page, DefaultPage)
PerPageValue == Default(req.perPage, DefaultPerPage)
SearchValue == Default(req.search, DefaultSearch).s

\* the value is a whole number from 1 on
AtLeastOne(v) == IsSmallInt(ToNumber(v)) /\ JsLe(N(1), ToNumber(v))

(***************************************************************************)
(* C1: for every month value that is absent, non-numeric or an integer     *)
(* outside 1..12, each of the five read endpoints answers with the error   *)
(* response (status 500 and a message) and has sent no store query and no  *)
(* sub-call before failing.                                                *)
(***************************************************************************)
C1_InvalidMonthFailsBeforeAnyCall ==
    (rpc = "done" /\ MonthUnusable(req.month)) =>
        /\ resp.status = 500
        /\ DOMAIN resp.body = {"message"}
        /\ calls = 0

(***************************************************************************)
(* C2: for every month m in 1..12 and every time zone of the host, the     *)
(* window of a read endpoint is [start, end) with start the first instant  *)
(* of day 1 of month m of 2021 and end the first instant of day 1 of the   *)
(* following month (1 January 2022 for m = 12), both read in UTC or both   *)
(* read in the local time of the host.                                     *)
(***************************************************************************)
\* the first instant of day 1 of month m of 2021 in UTC; m = 13 is January
\* 2022
MonthStart(m) == IF m = 13 THEN UTC(2022, 1, 1, 0, 0) ELSE UTC(2021, m, 1, 0, 0)

\* the same in the local time of the zone
MonthStartLocal(m, zone) == FromLocal(zone, MonthStart(m))

C2_WindowIsTheCalendarMonth ==
    (rpc = "done" /\ req.ep /= "combined" /\ MonthInRange(req.month)) =>
        LET m == MonthNumber(req.month)
        IN  \/ /\ loc.startDate = MonthStart(m)
               /\ loc.endDate = MonthStart(m + 1)
            \/ /\ loc.startDate = MonthStartLocal(m, tz)
               /\ loc.endDate = MonthStartLocal(m + 1, tz)

(***************************************************************************)
(* C3: the query built by getTransactions matches a record exactly when    *)
(* its dateOfSale is in the window and (the search string is empty, or the *)
(* title contains it as a case-insensitive substring, or the description   *)
(* does, or the search string parses entirely as a number and the price    *)
(* equals that number).                                                    *)
(***************************************************************************)
SearchPredicate(doc, search) ==
    \/ search = <<>>
    \/ ContainsIgnoreCase(doc.title, search)
    \/ ContainsIgnoreCase(doc.description, search)
    \/ /\ Trim(search) /= <<>>
       /\ ~IsNaN(ToNumberStr(search))
       /\ JsEq(doc.price, ToNumberStr(search))

\* the query matches the document: a query the store rejects matches none
QueryMatches(doc, q) == ~QueryFails(q) /\ Matches(doc, q)

C3_QueryIsTheSearchPredicate ==
    (Done("transactions") /\ MonthInRange(req.month) /\ ~CastFails(loc.query)) =>
        \A i \in 1..Len(store) :
            QueryMatches(store[i], loc.query) <=>
                /\ ~Before(store[i].dateOfSale, loc.startDate)
                /\ Before(store[i].dateOfSale, loc.endDate)
                /\ SearchPredicate(store[i], SearchValue)

(***************************************************************************)
(* C4: for page >= 1 and perPage >= 1, getTransactions returns the         *)
(* matching records at positions [(page-1)*perPage, page*perPage) of the   *)
(* store's order, total is the count of all matching records, totalPages   *)
(* is ceil(total / perPage), a page beyond the last one is an empty list   *)
(* and not an error, and the pages 1..totalPages together hold every       *)
(* matching record exactly once.                                           *)
(***************************************************************************)
RECURSIVE PagesUpTo(_, _, _)
PagesUpTo(docs, k, perPage) ==
    IF k = 0 THEN <<>>
    ELSE PagesUpTo(docs, k - 1, perPage)
         \o SkipLimit(docs, (k - 1) * perPage, perPage)

\* the claim on the matching records, pg and pp being page and perPage
PaginationOf(matching, total, pg, pp, first, tp) ==
    /\ resp.status = 200
    /\ resp.body.transactions =
           JsonDocs([i \in 1..(IF total <= first THEN 0
                               ELSE Min(pp, total - first)) |->
                        matching[first + i]])
    /\ resp.body.total = total
    /\ resp.body.totalPages = N(tp)
    /\ tp * pp >= total
    /\ (tp - 1) * pp < total
    /\ (pg > tp => resp.body.transactions = <<>>)
    /\ PagesUpTo(matching, tp, pp) = matching

PaginationFor(matching, pg, pp) ==
    PaginationOf(matching, Len(matching), pg, pp, (pg - 1) * pp,
                 (Len(matching) + pp - 1) \div pp)

\* the records Transaction.find has fetched, before the count is awaited
FetchedFor(matching, first, pp) ==
    loc.transactions =
        [i \in 1..(IF Len(matching) <= first THEN 0
                   ELSE Min(pp, Len(matching) - first)) |-> matching[first + i]]

C4_Pagination ==
    (/\ req.ep = "transactions"
     /\ rpc \in {"count", "done"}
     /\ ~QueryFails(loc.query)
     /\ AtLeastOne(PageValue)
     /\ AtLeastOne(PerPageValue)) =>
        LET pg == IntOf(ToNumber(PageValue))
            pp == IntOf(ToNumber(PerPageValue))
        IN  IF rpc = "count"
            THEN FetchedFor(Find(store, loc.query), (pg - 1) * pp, pp)
            ELSE PaginationFor(Find(store, loc.query), pg, pp)

\* five matching records, two per page: the third and last page holds one;
\* the parameters came as strings and are echoed as strings
C4_Witness ==
    /\ Succeeded("transactions")
    /\ resp.body.total = 5
    /\ resp.body.perPage = JsString(<<"2">>)
    /\ resp.body.page = JsString(<<"3">>)
    /\ resp.body.totalPages = N(3)
    /\ Len(resp.body.transactions) = 1

(***************************************************************************)
(* C5 as claimed: getBarChartData returns exactly the ten keys, each the   *)
(* count of the records of the window whose price falls in the inclusive   *)
(* range the key names, and the ten counts add up to the number of records *)
(* in the window.                                                          *)
(***************************************************************************)
\* price p lies in the range the b-th key names
InNamedRange(p, b) ==
    IF b = 10 THEN JsLe(N(901), p)
    ELSE IF b = 1 THEN JsLe(N(0), p) /\ JsLe(p, N(100))
    ELSE JsLe(N(100 * (b - 1) + 1), p) /\ JsLe(p, N(100 * b))

C5_BucketsAreTheNamedRanges ==
    Succeeded("bar-chart") =>
        LET docs == InWindow(store, loc.startDate, loc.endDate)
        IN  /\ DOMAIN resp.body = BucketKeys
            /\ \A b \in 1..Len(BucketNames) :
                  resp.body[BucketNames[b]] =
                      Cardinality({i \in 1..Len(docs) :
                                      InNamedRange(docs[i].price, b)})
            /\ SumOver(resp.body, BucketKeys) = Len(docs)

(***************************************************************************)
(* C5 as amended: the b-th key counts the records of the window whose      *)
(* price p has 100*(b-1) < p <= 100*b; the first key counts every price    *)
(* <= 100, negative ones included, the last every price > 900.  Every      *)
(* record of the window is in exactly one bucket: the counts add up to the *)
(* number of records in the window.                                        *)
(***************************************************************************)
InHalfOpenRange(p, b) ==
    /\ (b = 1 \/ JsGt(p, N(100 * (b - 1))))
    /\ (b = 10 \/ JsLe(p, N(100 * b)))

C5_BucketsAreHalfOpenRanges ==
    Succeeded("bar-chart") =>
        LET docs == InWindow(store, loc.startDate, loc.endDate)
        IN  /\ DOMAIN resp.body = BucketKeys
            /\ \A b \in 1..Len(BucketNames) :
                  resp.body[BucketNames[b]] =
                      Cardinality({i \in 1..Len(docs) :
                                      InHalfOpenRange(docs[i].price, b)})
            /\ SumOver(resp.body, BucketKeys) = Len(docs)

\* a window holding prices 100, 100.5, 101, 5 and 901
C5_Witness ==
    /\ Succeeded("bar-chart")
    /\ Len(InWindow(store, loc.startDate, loc.endDate)) = 5
    /\ resp.body["0-100"] = 2
    /\ resp.body["101-200"] = 2
    /\ resp.body["901-above"] = 1

(***************************************************************************)
(* C6: for a fixed store and month, two getCombinedData requests that      *)
(* differ only in search return identical statistics, barChart and         *)
(* pieChart parts, each computed over every record of the window, while    *)
(* the transactions part holds only records satisfying the search          *)
(* predicate.                                                              *)
(***************************************************************************)
\* the response to the request and the response other to the same request
\* with another search, docs being the records of the window
SameAggregates(other, docs) ==
    /\ resp.status = 200
    /\ other.status = 200
    /\ other.body.statistics = resp.body.statistics
    /\ other.body.barChart = resp.body.barChart
    /\ other.body.pieChart = resp.body.pieChart
    /\ resp.body.statistics = StatisticsBody(docs)
    /\ resp.body.barChart = BarChartBody(docs)
    /\ resp.body.pieChart = PieChartBody(docs)
    /\ \A i \in 1..Len(resp.body.transactions.transactions) :
          \E j \in 1..Len(docs) :
              /\ resp.body.transactions.transactions[i] = JsonDoc(docs[j])
              /\ SearchPredicate(docs[j], SearchValue)

C6_AggregatesIgnoreSearch ==
    (Done("combined") /\ MonthInRange(req.month)) =>
        \A s \in SearchInputs :
            SameAggregates(CombinedResponse([req EXCEPT !.search = s],
                                            store, tz),
                           InWindow(store, loc.query.gte, loc.query.lt))

(***************************************************************************)
(* C10: with no reseed overlapping the request and an empty search, the    *)
(* counts of the four parts of getCombinedData agree: transactions.total = *)
(* totalSoldItems + totalNotSoldItems = the sum of the ten buckets = the   *)
(* sum of the pieChart counts = the number of stored records in the        *)
(* window, and pieChart has a key exactly for the categories borne by a    *)
(* record of the window.                                                   *)
(***************************************************************************)
\* sum of the counts of a pieChart body; -1 when a count is not a number
PieTotal(pie) ==
    IF \E k \in DOMAIN pie : pie[k] = JsonNull THEN 0 - 1
    ELSE SumOver([k \in DOMAIN pie |-> IntOf(pie[k])], DOMAIN pie)

C10_CountsAgree ==
    (Succeeded("combined") /\ SearchValue = <<>>) =>
        LET docs == InWindow(store, loc.query.gte, loc.query.lt)
            n == Len(docs)
        IN  /\ resp.body.transactions.total = n
            /\ resp.body.statistics.totalSoldItems
                   + resp.body.statistics.totalNotSoldItems = n
            /\ SumOver(resp.body.barChart, BucketKeys) = n
            /\ PieTotal(resp.body.pieChart) = n
            /\ DOMAIN resp.body.pieChart =
                   {docs[i].category : i \in 1..Len(docs)}

(***************************************************************************)
(* C7: after any sequence of initializeDatabase calls over any source      *)
(* datasets every stored record has a numeric, non-NaN price: a source     *)
(* price that parses as a number is stored as that number ("42.5" as       *)
(* 42.5), one that does not parse or is missing is stored as 0, the record *)
(* is kept and its other fields are unchanged.                             *)
(***************************************************************************)
\* the raw records the seed source can deliver
SourceRecords ==
    UNION {{d.items[i] : i \in 1..Len(d.items)} : d \in LoadResponses}

\* the string is a decimal numeral from its first to its last character,
\* white space around it aside
WholeNumeral(s) ==
    /\ Trim(s) /= <<>>
    /\ ~IsNaN(ToNumberStr(s))
    /\ \A i \in 1..Len(s) : s[i] \notin {"x", "X", "o", "O", "b", "B"}

\* what the claim says of each price the source can deliver: whether it
\* parses as a number, and the number
Claimed ==
    [raw \in {r.price : r \in SourceRecords} |->
        [whole |-> raw.t = "string" /\ WholeNumeral(raw.s),
         value |-> IF raw.t = "string" THEN ToNumberStr(raw.s) ELSE raw.n]]

\* a number is stored as it is, a string that parses as a number as that
\* number, every other price as 0
PriceAsClaimed(raw, stored) ==
    /\ stored.k \in {"fin", "inf"}
    /\ CASE raw.t = "number" /\ ~IsNaN(raw.n) -> JsEq(stored, raw.n)
         [] raw.t = "string" /\ Claimed[raw].whole ->
                stored = Claimed[raw].value
         [] OTHER -> stored = Zero(FALSE)

OtherFieldsKept(raw, doc) ==
    /\ doc.title = raw.title
    /\ doc.description = raw.description
    /\ doc.category = raw.category
    /\ doc.sold = raw.sold
    /\ doc.dateOfSale = raw.dateOfSale

C7_StoredPricesAreNumbers ==
    /\ \A i \in 1..Len(store) :
          \E raw \in SourceRecords :
              /\ OtherFieldsKept(raw, store[i])
              /\ PriceAsClaimed(raw.price, store[i].price)
    /\ \A p \in Seeders :
          seed[p].pc = "insert" =>
              /\ Len(seed[p].transactions) = Len(seed[p].data.items)
              /\ \A i \in 1..Len(seed[p].transactions) :
                    /\ OtherFieldsKept(seed[p].data.items[i],
                                       seed[p].transactions[i])
                    /\ PriceAsClaimed(seed[p].data.items[i].price,
                                      seed[p].transactions[i].price)

(***************************************************************************)
(* C8: initializeDatabase reports success only if both the delete and the  *)
(* bulk insert completed; every failure (fetch, malformed top-level        *)
(* response, delete, insert) is reported as the one generic failure        *)
(* response; nothing is rolled back: a failed fetch leaves the store       *)
(* unchanged, a failure after the delete leaves the store without the      *)
(* records it held before.                                                 *)
(***************************************************************************)
C8_Reported ==
    \A p \in Seeders :
        seed[p].pc = "done" =>
            /\ seed[p].resp \in {SeedSuccess, SeedError}
            /\ (seed[p].resp = SeedSuccess <=> seed[p].fail = "none")
            /\ (seed[p].resp = SeedSuccess =>
                    seed[p].ops = {"delete", "insert"})

C8_Responding ==
    \A p \in Seeders :
        (seed[p].pc /= "done" /\ seed'[p].pc = "done") =>
            /\ (seed'[p].fail = "fetch" => store' = store)
            /\ (seed'[p].fail \in {"malformed", "insert"} =>
                    \A i \in 1..Len(store') :
                        store'[i].oid \notin seed'[p].prior)

C8_SeedOutcome == [](C8_Reported) /\ [][C8_Responding]_vars

\* a reseed whose insert failed after its delete had removed records
C8_Witness ==
    \E p \in Seeders :
        /\ seed[p].pc = "done"
        /\ seed[p].fail = "insert"
        /\ seed[p].resp = SeedError
        /\ seed[p].prior /= {}

(***************************************************************************)
(* C9 as claimed: no read mutates the store, and when no reseed is in      *)
(* progress a read returns exactly the records of the last completed       *)
(* reseed that fall in the window.                                         *)
(***************************************************************************)
Quiet == \A p \in Seeders : ~InProgress(p)

\* what the read steps return when the store holds the documents docs
ReadReturns(docs) ==
    /\ (rpc = "idle" /\ rpc' = "done" /\ req'.ep = "statistics") =>
           /\ resp'.status = 200
           /\ resp'.body =
                  StatisticsBody(InWindow(docs, loc'.startDate, loc'.endDate))
    /\ (rpc = "idle" /\ rpc' = "count") =>
           loc'.transactions =
               PageOf(InWindow(docs, loc'.startDate, loc'.endDate),
                      Default(req'.page, DefaultPage),
                      Default(req'.perPage, DefaultPerPage))
    /\ (rpc = "count" /\ rpc' = "done") =>
           resp'.body.total = Len(InWindow(docs, loc.startDate, loc.endDate))

ReadsLeaveStore == rpc' /= rpc => store' = store

C9_ReadsSeeLastReseed ==
    [][ReadsLeaveStore
       /\ ((Quiet /\ lastSeed.any) => ReadReturns(lastSeed.docs))]_vars

(***************************************************************************)
(* C9 as amended: no read mutates the store, and when no reseed is in      *)
(* progress, the last successful reseed ran with no other reseed in flight *)
(* and no reseed has touched the store since, a read returns exactly the   *)
(* records that reseed inserted that fall in the window.                   *)
(***************************************************************************)
C9_ReadsSeeUndisturbedReseed ==
    [][ReadsLeaveStore
       /\ ((Quiet /\ lastSeed.clean) => ReadReturns(lastSeed.docs))]_vars

\* a getStatistics that ran between the deleteMany and the insertMany of a
\* reseed found no record, in a month in which both the previous dataset and
\* the one being loaded have records
C9_Witness ==
    \E p \in Seeders :
        /\ seed[p].pc = "insert"
        /\ Succeeded("statistics")
        /\ loc.gap
        /\ resp.body.totalSoldItems + resp.body.totalNotSoldItems = 0
        /\ lastSeed.any
        /\ InWindow(lastSeed.docs, loc.startDate, loc.endDate) /= <<>>
        /\ InWindow(seed[p].transactions, loc.startDate, loc.endDate) /= <<>>

====
